---- MODULE Spec2Model ----
(***************************************************************************)
(* A model of the Amazon transaction scraper (src/src/scraper.ts with the  *)
(* schemas of src/src/config.ts): the order-list pager, the dedup filter,  *)
(* the pool of PARALLEL_BROWSERS workers, the artifact capture and the     *)
(* result aggregation.                                                     *)
(*                                                                         *)
(* Order ids are the naturals 1..MaxRefs; 0 stands for the empty string.   *)
(* The path order-<id>.png is <<"order", id>> and '' is << >>.             *)
(***************************************************************************)
EXTENDS Integers, Sequences, FiniteSets, TLC

\* ------------------------------------------------------------------ bounds
MaxRefs == 5
MaxPrior == 2
MaxFaults == 1
MaxLen == 10
MaxChunks == 5
MaxRows == 2
MaxListRefs == 3
MaxListIds == 2
MaxFiles == 2
MaxMainJobs == 5
MaxHref == 3
MaxLabels == 2
MaxFilterLen == 3
MaxFilterIds == 3
MaxRuns == 3
MaxTicks == 4
MaxRunOrders == 2
MaxClock == 2
MaxWorkerJobs == 2
MaxWorkerFaults == 2

\* ------------------------------------------------------- program constants
PARALLEL_BROWSERS == 4
PageLimit == 10

\* The orders of the site, and those earlier runs may have left on the disk
Ids == 1..MaxRefs
PriorIds == 1..MaxPrior
Workers == 1..PARALLEL_BROWSERS

VARIABLES
  pc, processedOrders, listing, newTransactions, browsers, contexts, chunks,
  wpc, widx, wexists, wresults, shots, transactionData, poolError,
  faults, threw, captureOps, refundsFound, indexAtFilter, snapshotIds, closed,
  cpc, cArray, cChunks, cResult,
  lpc, currentPage, allTransactions, rowsLeft, clicks, lresult, clockMs, pagesRead,
  lcaller,
  loadPc, dataDir, screenshotsDir, loadFault, loadResult,
  main,
  rowPc, rowIn, rowOut,
  extPc, extIn, extOut,
  filt,
  runs,
  wk,
  auth

poolVars == <<pc, processedOrders, listing, newTransactions, browsers, contexts,
              chunks, wpc, widx, wexists, wresults, shots, transactionData,
              poolError, faults, threw, captureOps, refundsFound, indexAtFilter,
              snapshotIds, closed>>
chunkVars == <<cpc, cArray, cChunks, cResult>>
listVars == <<lpc, currentPage, allTransactions, rowsLeft, clicks, lresult, clockMs,
              pagesRead, lcaller>>
loadVars == <<loadPc, dataDir, screenshotsDir, loadFault, loadResult>>
mainVars == <<main>>
rowVars == <<rowPc, rowIn, rowOut>>
extVars == <<extPc, extIn, extOut>>
filterVars == <<filt>>
runsVars == <<runs>>
workerVars == <<wk>>
loginVars == <<auth>>
vars == <<poolVars, chunkVars, listVars, loadVars, mainVars, rowVars, extVars, filterVars, runsVars, workerVars, loginVars>>
notPool == <<chunkVars, listVars, loadVars, mainVars, rowVars, extVars, filterVars, runsVars, workerVars, loginVars>>
notChunk == <<poolVars, listVars, loadVars, mainVars, rowVars, extVars, filterVars, runsVars, workerVars, loginVars>>
notList == <<poolVars, chunkVars, loadVars, mainVars, rowVars, extVars, filterVars, runsVars, workerVars, loginVars>>
notLoad == <<poolVars, chunkVars, listVars, mainVars, rowVars, extVars, filterVars, runsVars, workerVars, loginVars>>
notMain == <<poolVars, chunkVars, listVars, loadVars, rowVars, extVars, filterVars, runsVars, workerVars, loginVars>>
notRow == <<poolVars, chunkVars, listVars, loadVars, mainVars, extVars, filterVars, runsVars, workerVars, loginVars>>
notExt == <<poolVars, chunkVars, listVars, loadVars, mainVars, rowVars, filterVars, runsVars, workerVars, loginVars>>
notFilter == <<poolVars, chunkVars, listVars, loadVars, mainVars, rowVars, extVars, runsVars, workerVars, loginVars>>
notRuns == <<poolVars, chunkVars, listVars, loadVars, mainVars, rowVars, extVars, filterVars, workerVars, loginVars>>
notWorker == <<poolVars, chunkVars, listVars, loadVars, mainVars, rowVars, extVars, filterVars, runsVars, loginVars>>
notLogin == <<poolVars, chunkVars, listVars, loadVars, mainVars, rowVars, extVars, filterVars, runsVars, workerVars>>

\* ---------------------------------------------- the parts a specification leaves out
ChunkIdle ==
  /\ cpc = "off"
  /\ cArray = << >>
  /\ cChunks = 1
  /\ cResult = << >>

PoolIdle ==
  /\ pc = "off"
  /\ processedOrders = {}
  /\ listing = << >>
  /\ newTransactions = << >>
  /\ browsers = 0
  /\ contexts = 0
  /\ chunks = << >>
  /\ wpc = [w \in Workers |-> "idle"]
  /\ widx = [w \in Workers |-> 0]
  /\ wexists = [w \in Workers |-> FALSE]
  /\ wresults = [w \in Workers |-> << >>]
  /\ shots = {}
  /\ transactionData = [transactions |-> << >>, totalTransactions |-> 0, totalAmount |-> 0]
  /\ poolError = FALSE
  /\ faults = 0
  /\ threw = [w \in Workers |-> {}]
  /\ captureOps = [i \in Ids |-> 0]
  /\ refundsFound = 0
  /\ indexAtFilter = {}
  /\ snapshotIds = {}
  /\ closed = << >>

\* The caller of the walk, scrapeTransactions: where it stands ("walk": it
\* awaits scrapeTransactionList), the index it filters with, the refs it hands
\* to processTransactionsInParallel, and, of the walk's catch block, the number
\* of refs collected when it was entered (-1: it was not) and whether its read
\* of the body text threw
CallerAt(p, index) ==
  [pc |-> p, index |-> index, jobs |-> << >>, caught |-> 0 - 1, bodyThrew |-> FALSE]

ListIdle ==
  /\ lpc = "off"
  /\ currentPage = 0
  /\ allTransactions = << >>
  /\ rowsLeft = 0
  /\ clicks = 0
  /\ lresult = << >>
  /\ clockMs = 0
  /\ pagesRead = 0
  /\ lcaller = CallerAt("off", {})

LoadIdle ==
  /\ loadPc = "off"
  /\ dataDir = << >>
  /\ screenshotsDir = {}
  /\ loadFault = "none"
  /\ loadResult = [index |-> {}, rejected |-> FALSE]

\* The process running main(): where it stands (pc), its exit status (-1 while
\* it runs), whether the list view was reached (navigateToTransactions returns
\* false when it was not, and the caller does not read it), how the page walk ended,
\* per worker the jobs of its chunk not yet started (left) and whether one is
\* in flight (busy), the records pushed, and what has been done so far.
MainAt(p) ==
  [pc |-> p, exitCode |-> -1, listReached |-> FALSE, walk |-> "none",
   left |-> [w \in Workers |-> 0], busy |-> [w \in Workers |-> FALSE],
   reported |-> 0, metadataDone |-> FALSE, writes |-> 0, saved |-> FALSE,
   reportDone |-> FALSE, sessionClosed |-> FALSE, signalled |-> FALSE,
   pending |-> FALSE, newRefs |-> 0]

MainIdle == main = MainAt("off")

\* The text the amount pattern /\$(\d+(?:,\d{3})*(?:\.\d{2})?)/ matches in a row:
\* the groups of digits between the thousands separators, as numbers, and the
\* two digits after the point (0 without them); no group: no match.
NoAmount == [groups |-> << >>, cents |-> 0]

\* A row handed to extractTransactionFromRow: whether a DOM call on it throws,
\* its text (null, or what the two patterns find in it: the id-shaped code, << >>
\* for none, and the amount text), the link row.$ matched (found) with its
\* href attribute as a sequence of pieces of text, and the value of Date.now().
NoRow ==
  [throws |-> FALSE, text |-> [null |-> TRUE, code |-> << >>, amount |-> NoAmount],
   link |-> [found |-> FALSE, href |-> << >>], now |-> "t0"]

RowIdle ==
  /\ rowPc = "off"
  /\ rowIn = NoRow
  /\ rowOut = << >>

\* The orderDetails object extractOrderDetailsWithPage starts from
EmptyOrderDetails ==
  [recipient |-> "", address |-> "", items |-> << >>, paymentMethod |-> "",
   trackingNumber |-> "", refund |-> 0]

\* A detail document: the text of the address block and of the payment block
\* ("" when the block is absent or empty); for each span, div or td whose
\* trimmed text is exactly 'Refund Total', the amount the currency pattern finds
\* in the text of its parent and in the joined text of the parent's children
\* (0: no match); the amount the plain text of the page shows after the words
\* Refund Total (0: none); the item rows ("item": extracted, "null": no name,
\* "throws": its extraction throws); the date in the body text.
NoDoc ==
  [recipient |-> "", address |-> "", paymentMethod |-> "", refundLabels |-> << >>,
   bodyRefund |-> 0, items |-> << >>, date |-> ""]

ExtIdle ==
  /\ extPc = "off"
  /\ extIn = [doc |-> NoDoc, failAt |-> "none"]
  /\ extOut = EmptyOrderDetails

\* The dedup filter on its own: the listing and the index it is given, and
\* what it returns for them (once) and for its own output (twice)
FilterAt(p, transactions, index) ==
  [pc |-> p, transactions |-> transactions, index |-> index,
   once |-> << >>, twice |-> << >>]

FilterIdle == filt = FilterAt("off", << >>, {})

\* Successive runs of main() over one data and one screenshots directory: the
\* clock, in steps of 30 seconds, the path each run so far gave to saveData, in
\* run order, the files of the data directory, each with the run that wrote it
\* and the ids of its records, the ids of the order-<id>.png files, and, for
\* the run in progress ("running"), the index it loaded, the new refs not
\* yet processed and the ids of the records it holds in memory
RunsAt(p) ==
  [pc |-> p, now |-> 0, written |-> << >>, files |-> {}, shots |-> {},
   index |-> {}, todo |-> {}, records |-> {}]

RunsIdle == runs = RunsAt("off")

\* One worker callback of the pool, step by step: where it stands (pc), its
\* chunk, the shape of the detail pages (a 'Refund Total' label, the order
\* card, the card reaching below the viewport), the artifacts on the disk, the
\* loop index i, the step of the smart capture (k), the order details and the
\* record of the job at hand (ret), the worker's results, the ids it marked
\* as processed, the exceptions injected so far (faults) and the steps of the
\* job at hand that threw, and the calls made so far (log).
NoShape == [refund |-> FALSE, card |-> FALSE, tall |-> FALSE]
WorkerAt(p, chunk, shape, disk) ==
  [pc |-> p, chunk |-> chunk, shape |-> shape, shots |-> disk, i |-> 0, k |-> 0,
   details |-> EmptyOrderDetails, ret |-> << >>, results |-> << >>,
   processed |-> {}, faults |-> 0, threw |-> {}, log |-> << >>,
   page |-> 0, used |-> {}]

WorkerIdle == wk = WorkerAt("off", << >>, NoShape, {})

\* AmazonAuth.login: where it stands, the time the wait loop has counted, the
\* polls it has made, the markers found in the url it read last, what
\* checkPaymentsPageAccess returned, whether an awaited call threw, and the
\* value login returned
LoginAt(p) ==
  [pc |-> p, waitTime |-> 0, polls |-> 0, url |-> {}, access |-> FALSE,
   threw |-> FALSE, result |-> FALSE]

LoginIdle == auth = LoginAt("off")

\* ------------------------------------------------------------------ helpers
Min(a, b) == IF a < b THEN a ELSE b

\* Math.ceil(a / b) for a >= 0, b >= 1
Ceil(a, b) == (a + b - 1) \div b

RECURSIVE Flatten(_)
Flatten(ss) == IF ss = << >> THEN << >> ELSE Head(ss) \o Flatten(Tail(ss))

RECURSIVE SumSeq(_)
SumSeq(s) == IF s = << >> THEN 0 ELSE Head(s) + SumSeq(Tail(s))

\* Array.prototype.slice(i, j): 0-based, j exclusive, clamped to the length
Slice(array, i, j) == SubSeq(array, i + 1, Min(j, Len(array)))

\* ------------------------------------------------------------- chunkArray
ChunkSize(array, n) == Ceil(Len(array), n)

\* for (let i = 0; i < array.length; i += chunkSize) result.push(slice(i, i + chunkSize))
RECURSIVE SliceLoop(_, _, _, _)
SliceLoop(array, i, chunkSize, result) ==
  IF i < Len(array)
  THEN SliceLoop(array, i + chunkSize, chunkSize,
                 Append(result, Slice(array, i, i + chunkSize)))
  ELSE result

\* while (result.length < chunks) result.push([])
RECURSIVE PadLoop(_, _)
PadLoop(result, n) ==
  IF Len(result) < n THEN PadLoop(Append(result, << >>), n) ELSE result

\* chunkArray without the padding loop
ChunkArrayNoPad(array, n) == SliceLoop(array, 0, ChunkSize(array, n), << >>)

chunkArray(array, n) ==
  PadLoop(SliceLoop(array, 0, ChunkSize(array, n), << >>), n)

\* ------------------------------------------------------------ the site
\* The amount shown in the list row of order id, and the detail document of
\* order id (what the selectors and the body text of its page hold).
RowTotal(id) == 10 * id
DocRefund(id) == IF id % 2 = 1 THEN 5 ELSE 0
Doc(id) ==
  [recipient |-> "r", address |-> "a", paymentMethod |-> "p",
   refundLabels |-> IF DocRefund(id) = 0 THEN << >>
                    ELSE <<[parent |-> DocRefund(id), siblings |-> DocRefund(id)]>>,
   bodyRefund |-> DocRefund(id), items |-> <<"item">>, date |-> "d"]

DetailUrl(id) == <<"order-details", id>>
ScreenshotPath(id) == <<"order", id>>

\* The ref extractTransactionFromRow builds for a row that links to order id
BasicTransaction(id) ==
  [orderId |-> id, date |-> "", total |-> RowTotal(id), orderDetailsUrl |-> DetailUrl(id)]

\* The listings the pager hands over: m refs, the ids repeating with period d
\* (d = 1: one order in every row; d >= m: all rows of distinct orders)
ListingOf(m, d) == [i \in 1..m |-> BasicTransaction(((i - 1) % d) + 1)]
ListLens == {0, 1, 2, MaxRefs}
Periods == {1, 2, MaxRefs}
Listings == {ListingOf(m, d) : m \in ListLens, d \in Periods}

\* ---------------------------------------------------------------- schemas
\* data.k || d for a string, a number, and an array or object (always truthy)
GetStr(data, k, d) == IF k \in DOMAIN data /\ data[k] # "" THEN data[k] ELSE d
GetNum(data, k, d) == IF k \in DOMAIN data /\ data[k] # 0 THEN data[k] ELSE d
GetObj(data, k, d) == IF k \in DOMAIN data THEN data[k] ELSE d

createTransaction(data) ==
  [orderId |-> GetNum(data, "orderId", 0),
   date |-> GetStr(data, "date", ""),
   total |-> GetNum(data, "total", 0),
   status |-> GetStr(data, "status", "unknown"),
   recipient |-> GetStr(data, "recipient", ""),
   address |-> GetStr(data, "address", ""),
   items |-> GetObj(data, "items", << >>),
   orderScreenshot |-> GetObj(data, "orderScreenshot", << >>),
   paymentMethod |-> GetStr(data, "paymentMethod", ""),
   trackingNumber |-> GetStr(data, "trackingNumber", "")]

\* ------------------------------------------------------ extraction engine
ExtractSteps == <<"address", "payment", "refund", "items">>
StepIndex(s) == CHOOSE k \in 1..(Len(ExtractSteps) + 1) :
                  IF s = "none" THEN k = Len(ExtractSteps) + 1 ELSE ExtractSteps[k] = s

\* The loop over the 'Refund Total' elements from the k-th on: the first amount
\* found in the parent's text, else in the siblings' text, ends the loop
RECURSIVE RefundLoop(_, _)
RefundLoop(labels, k) ==
  IF k > Len(labels) THEN 0
  ELSE IF labels[k].parent # 0 THEN labels[k].parent
  ELSE IF labels[k].siblings # 0 THEN labels[k].siblings
  ELSE RefundLoop(labels, k + 1)

\* The loop over the item rows: an item that is null or throws is dropped
ItemsOf(rows) == SelectSeq(rows, LAMBDA e : e = "item")

\* extractOrderDetailsWithPage on document doc, when the query of step failAt
\* throws ("none": no query throws): the fields set before the throw are kept.
extractOrderDetailsWithPage(doc, failAt) ==
  LET reached(s) == StepIndex(s) < StepIndex(failAt)
  IN [recipient |-> IF reached("address") THEN doc.recipient ELSE "",
      address |-> IF reached("address") THEN doc.address ELSE "",
      items |-> IF reached("items") THEN ItemsOf(doc.items) ELSE << >>,
      paymentMethod |-> IF reached("payment") THEN doc.paymentMethod ELSE "",
      trackingNumber |-> "",
      refund |-> IF reached("refund") THEN RefundLoop(doc.refundLabels, 1) ELSE 0]

\* the catch block keeping the path of the artifact
DegradedRecordWithShot(t) ==
  createTransaction([orderId |-> t.orderId, date |-> t.date, total |-> t.total,
                     orderScreenshot |-> ScreenshotPath(t.orderId),
                     orderDetailsUrl |-> t.orderDetailsUrl, items |-> << >>])

\* The record scrapeOrderDetailsWithPage returns from its catch block
DegradedRecord(t) ==
  createTransaction([orderId |-> t.orderId, date |-> t.date, total |-> t.total,
                     orderScreenshot |-> << >>, orderDetailsUrl |-> t.orderDetailsUrl,
                     items |-> << >>])

\* The record scrapeOrderDetailsWithPage returns from its try block
DetailedRecord(t, orderDate, orderDetails) ==
  createTransaction(orderDetails @@
                    [orderId |-> t.orderId,
                     date |-> IF orderDate # "" THEN orderDate ELSE t.date,
                     total |-> t.total,
                     orderScreenshot |-> ScreenshotPath(t.orderId),
                     orderDetailsUrl |-> t.orderDetailsUrl])

\* ------------------------------------------------------------ dedup filter
\* the filter with its test dropped
FilterNewKeepsAll(transactions, index) == transactions

\* the filter collecting what it keeps with unshift instead of push
FilterNewReversed(transactions, index) ==
  LET kept == SelectSeq(transactions, LAMBDA t : t.orderId \notin index)
  IN [k \in 1..Len(kept) |-> kept[Len(kept) + 1 - k]]

FilterNew(transactions, index) ==
  SelectSeq(transactions, LAMBDA t : t.orderId \notin index)

\* --------------------------------------------------------------- metadata
NetTerms(ts) == [k \in 1..Len(ts) |-> GetNum(ts[k], "total", 0) - GetNum(ts[k], "refund", 0)]
TotalAmount(ts) == SumSeq(NetTerms(ts))

WithMetadata(td) ==
  [td EXCEPT !.totalTransactions = Len(td.transactions),
             !.totalAmount = TotalAmount(td.transactions)]

\* ------------------------------------------------- scrapeTransactionList
ListInit ==
  /\ lpc = "start"
  /\ currentPage = 0
  /\ allTransactions = << >>
  /\ rowsLeft = 0
  /\ clicks = 0
  /\ lresult = << >>
  /\ clockMs = 1
  /\ pagesRead = 0
  /\ \E index \in SUBSET {1} : lcaller = CallerAt("walk", index)

\* the catch block returning the refs collected so far
ListCatchKeepsRefs(bodyOk) ==
  /\ lpc' = "done"
  /\ lresult' = allTransactions
  /\ lcaller' = [lcaller EXCEPT !.caught = Len(allTransactions),
                                !.bodyThrew = ~bodyOk,
                                !.pc = IF bodyOk THEN @ ELSE "threw"]

\* The catch block: the debug screenshot, whose exception takeScreenshot
\* swallows, and page.textContent('body'), whose exception leaves
\* scrapeTransactionList and is thrown again by scrapeTransactions; then
\* `return transactions`, the list that is never filled
ListCatch(bodyOk) ==
  /\ lpc' = "done"
  /\ lresult' = << >>
  /\ lcaller' = [lcaller EXCEPT !.caught = Len(allTransactions),
                                !.bodyThrew = ~bodyOk,
                                !.pc = IF bodyOk THEN @ ELSE "threw"]

\* The analysis screenshot, page.content() and the html dump; then
\* currentPage = 1 and the loop is entered
ListStart ==
  /\ lpc = "start"
  /\ \E ok \in BOOLEAN, bodyOk \in BOOLEAN :
       /\ ok => bodyOk
       /\ IF ok THEN lpc' = "page" /\ UNCHANGED <<lresult, lcaller>>
          ELSE ListCatch(bodyOk)
  /\ currentPage' = 1
  /\ UNCHANGED <<allTransactions, rowsLeft, clicks, clockMs, pagesRead, notList>>

\* page.$$ of the row containers: no row ends the walk normally; pagesRead is
\* the last page whose rows were handed to the loop over the rows
QueryRows ==
  /\ lpc = "page"
  /\ \E ok \in BOOLEAN, bodyOk \in BOOLEAN, k \in 0..MaxRows :
       /\ ok => bodyOk
       /\ ~ok => k = 0
       /\ pagesRead' = IF ok THEN currentPage ELSE pagesRead
       /\ IF ~ok THEN ListCatch(bodyOk) /\ UNCHANGED rowsLeft
          ELSE IF k = 0
               THEN lpc' = "done" /\ lresult' = allTransactions
                    /\ UNCHANGED <<rowsLeft, lcaller>>
          ELSE lpc' = "rows" /\ rowsLeft' = k /\ UNCHANGED <<lresult, lcaller>>
  /\ UNCHANGED <<currentPage, allTransactions, clicks, clockMs, notList>>

\* `unknown-${Date.now()}`: the ids of orders being positive in a listing, the
\* id made from the clock value t is written -t
SyntheticId(t) == 0 - t

\* The ref extractTransactionFromRow builds for a row with an amount in which
\* neither the link nor the text gives an order id
SyntheticTransaction(t, total) ==
  [orderId |-> SyntheticId(t), date |-> "", total |-> total, orderDetailsUrl |-> << >>]

\* extractTransactionFromRow of the next row: a ref of some order, or null
\* (no id and no amount in the row, or an exception, which it catches), or,
\* for a row with an amount and no id, a ref under a synthetic id; clockMs is
\* what Date.now() returned last, and it returns that value or a later one
ExtractRow ==
  /\ lpc = "rows"
  /\ \E id \in 0..MaxListIds, amountOnly \in BOOLEAN, dt \in 0..1 :
       /\ amountOnly => id = 0
       /\ ~amountOnly => dt = 0
       /\ clockMs + dt <= MaxClock
       /\ id # 0 \/ amountOnly => Len(allTransactions) < MaxListRefs
       /\ clockMs' = clockMs + dt
       /\ allTransactions' =
            IF id # 0 THEN Append(allTransactions, BasicTransaction(id))
            ELSE IF amountOnly
                 THEN Append(allTransactions, SyntheticTransaction(clockMs + dt, 10))
                 ELSE allTransactions
  /\ rowsLeft' = rowsLeft - 1
  /\ lpc' = IF rowsLeft = 1 THEN "next" ELSE "rows"
  /\ UNCHANGED <<currentPage, clicks, lresult, pagesRead, lcaller, notList>>

\* if (currentPage > 10) break
PageLimitPassedLate(p) == p > PageLimit + 1

PageLimitPassed(p) == p > PageLimit

\* The "Next Page" control: absent, the walk ends; present, it is clicked, the
\* page settles (each wait may throw), currentPage++ and the limit is checked.
NextPage ==
  /\ lpc = "next"
  /\ \E hasNext \in BOOLEAN, ok \in BOOLEAN, bodyOk \in BOOLEAN :
       /\ ~hasNext => ok
       /\ ok => bodyOk
       /\ clicks' = IF hasNext THEN clicks + 1 ELSE clicks
       /\ currentPage' = IF hasNext /\ ok THEN currentPage + 1 ELSE currentPage
       /\ IF ~ok THEN ListCatch(bodyOk)
          ELSE IF ~hasNext \/ PageLimitPassed(currentPage + 1)
               THEN lpc' = "done" /\ lresult' = allTransactions /\ UNCHANGED lcaller
               ELSE lpc' = "page" /\ UNCHANGED <<lresult, lcaller>>
  /\ UNCHANGED <<allTransactions, rowsLeft, clockMs, pagesRead, notList>>

\* scrapeTransactions once scrapeTransactionList has returned: the filter,
\* then processTransactionsInParallel for the new refs or, when there is none,
\* the metadata and the return
ListCaller ==
  /\ lpc = "done"
  /\ lcaller.pc = "walk"
  /\ LET new == FilterNew(lresult, lcaller.index)
     IN lcaller' = [lcaller EXCEPT !.jobs = new,
                                   !.pc = IF new = << >> THEN "returned" ELSE "dispatch"]
  /\ UNCHANGED <<lpc, currentPage, allTransactions, rowsLeft, clicks, lresult, clockMs,
                 pagesRead, notList>>

ListNext ==
  \/ ListStart
  \/ QueryRows
  \/ ExtractRow
  \/ NextPage
  \/ ListCaller

InitList == ListInit /\ PoolIdle /\ ChunkIdle /\ LoadIdle /\ MainIdle /\ RowIdle /\ ExtIdle /\ FilterIdle /\ RunsIdle /\ WorkerIdle /\ LoginIdle

SpecList == InitList /\ [][ListNext]_vars

\* C5: scrapeTransactionList activates the next-page control at most PageLimit
\* (10) times, and with the tenth activation the walk is over, whatever the
\* pages hold.
C5_AtMostTenAdvances ==
  /\ clicks <= PageLimit
  /\ clicks = PageLimit => lpc = "done"

C5_Witness ==
  /\ lpc = "done"
  /\ clicks = PageLimit
  /\ currentPage = PageLimit + 1
  /\ lresult = allTransactions
  /\ lresult # << >>

\* C7 (as claimed): no two refs returned by scrapeTransactionList have the same orderId.
C7_ListingDeduplicated ==
  lpc = "done" =>
    \A i, j \in 1..Len(lresult) : lresult[i].orderId = lresult[j].orderId => i = j

\* C30 (as claimed): when the walk ends because the page limit was passed, the
\* refs collected so far are returned as they were collected, and the rows of
\* every page the pager advanced to, the last one included, were extracted.
C30_CapEndsWalkWithAllPagesRead ==
  lpc = "done" /\ PageLimitPassed(currentPage) =>
    /\ lresult = allTransactions
    /\ pagesRead = currentPage

\* C39 (as claimed): when an exception occurs in the walk after refs were
\* collected, scrapeTransactionList returns the empty list and
\* scrapeTransactions goes on with no new ref: it dispatches no job.
C39_WalkErrorReturnsEmpty ==
  lcaller.caught > 0 =>
    /\ lresult = << >>
    /\ lcaller.pc \in {"walk", "returned"}
    /\ lcaller.jobs = << >>

\* C39: when an exception occurs in the walk after refs were collected, the
\* refs are never returned nor dispatched: scrapeTransactionList returns the
\* empty list and scrapeTransactions goes on with no new ref, unless the read
\* of the body text in the catch block throws as well, and then
\* scrapeTransactionList throws and scrapeTransactions with it.
C39_WalkErrorDiscardsRefs ==
  lcaller.caught > 0 =>
    /\ lresult = << >>
    /\ lcaller.jobs = << >>
    /\ ~lcaller.bodyThrew => lcaller.pc \in {"walk", "returned"}
    /\ lcaller.bodyThrew => lcaller.pc = "threw"

C39_Witness ==
  /\ lcaller.caught = 2
  /\ allTransactions # << >>
  /\ currentPage = 2
  /\ lcaller.pc = "returned"

\* C23 (as claimed): within one listing walk, any two rows that receive a
\* synthetic id receive distinct ids.
C23_SyntheticIdsDistinct ==
  \A i, j \in 1..Len(allTransactions) :
    /\ allTransactions[i].orderId < 0
    /\ allTransactions[i].orderId = allTransactions[j].orderId
    => i = j

\* ------------------------------------------- specification of chunkArray
IdentitySeq(m) == [i \in 1..m |-> i]

ChunkInit ==
  /\ cpc = "call"
  /\ cArray \in {IdentitySeq(m) : m \in 0..MaxLen}
  /\ cChunks \in 1..MaxChunks
  /\ cResult = << >>

ChunkApply ==
  /\ cpc = "call"
  /\ cResult' = chunkArray(cArray, cChunks)
  /\ cpc' = "done"
  /\ UNCHANGED <<cArray, cChunks, notChunk>>

ChunkNext == ChunkApply

InitChunk == ChunkInit /\ PoolIdle /\ ListIdle /\ LoadIdle /\ MainIdle /\ RowIdle /\ ExtIdle /\ FilterIdle /\ RunsIdle /\ WorkerIdle /\ LoginIdle

SpecChunk == InitChunk /\ [][ChunkNext]_vars

\* C3: chunkArray returns exactly N chunks whose concatenation, in chunk order
\* then intra-chunk order, is the input list (each element exactly once).
C3_ChunksCoverInput ==
  cpc = "done" => /\ Len(cResult) = cChunks
                  /\ Flatten(cResult) = cArray

C3_Witness ==
  /\ cpc = "done"
  /\ Len(cArray) = 5
  /\ cChunks = 4
  /\ Len(cResult) = 4
  /\ cResult[4] = << >>

\* C8 (as claimed): when M >= N no chunk is empty; a chunk is empty only when M < N.
C8_NoEmptyChunkWhenEnough ==
  cpc = "done" =>
    \A k \in 1..Len(cResult) : cResult[k] = << >> => Len(cArray) < cChunks

\* C29 (as claimed): the chunks are consecutive pieces of the input, each of
\* at most ceil(M/N) elements, and the sizes of any two of them differ by at
\* most one.
C29_ChunksNearEqual ==
  cpc = "done" =>
    /\ Flatten(cResult) = cArray
    /\ \A k \in 1..Len(cResult) : Len(cResult[k]) <= Ceil(Len(cArray), cChunks)
    /\ \A j, k \in 1..Len(cResult) : Len(cResult[j]) - Len(cResult[k]) <= 1

\* ------------------------------------------------- loadProcessedOrders
\* Here an order id is the sequence of the parts its text has between dashes:
\* 113-1234567-1234567 is <<"113", "1234567", "1234567">>; '' is << >>.
DigitParts == {"113", "1234567", "7654321", "1699000000000", "1"}
IdA == <<"113", "1234567", "1234567">>
IdB == <<"D01", "7654321", "7654321">>
IdU == <<"unknown", "1699000000000">>
NoId == << >>

\* A file of the data directory: whether its name ends in .json, what
\* fs.readJSON does on it ("throws": unreadable or not JSON; "noList": JSON
\* without an iterable transactions field; "ok": a snapshot), and the orderId of
\* each of its records.
SnapshotContents == {<<IdA>>, <<IdB, NoId>>, <<IdU, IdA>>}
DataFiles ==
  {[json |-> FALSE, read |-> "ok", ids |-> << >>]}
    \cup {[json |-> TRUE, read |-> r, ids |-> << >>] : r \in {"throws", "noList"}}
    \cup {[json |-> TRUE, read |-> "ok", ids |-> c] : c \in SnapshotContents}

\* A file name of the screenshots directory: head, the dash-separated parts, ext
ShotNames ==
  {[head |-> "order-", parts |-> IdA, ext |-> ".png"],
   [head |-> "order-", parts |-> IdB \o <<"1">>, ext |-> ".png"],
   [head |-> "order-", parts |-> IdU, ext |-> ".png"],
   [head |-> "page-", parts |-> <<"analysis">>, ext |-> ".png"]}

\* screenshot.match(/order-([^-]+-\d+-\d+)/): match[1], or NoId for null
MatchOrderName(name) ==
  IF /\ Len(name.parts) >= 3
     /\ name.parts[2] \in DigitParts
     /\ name.parts[3] \in DigitParts
  THEN SubSeq(name.parts, 1, 3)
  ELSE NoId

\* The scan of the screenshots directory
ScreenshotIds(names) ==
  {MatchOrderName(n) : n \in {m \in names : m.head = "order-" /\ m.ext = ".png"}} \ {NoId}

\* if (transaction.orderId) this.processedOrders.add(transaction.orderId)
FileIds(file) == {file.ids[k] : k \in 1..Len(file.ids)} \ {NoId}

\* the body of the loop over the json files without its try/catch
readSnapshotNoCatch(file, index) ==
  IF file.read = "ok"
  THEN [index |-> index \cup FileIds(file), threw |-> FALSE]
  ELSE [index |-> index, threw |-> TRUE]

\* The body of the loop over the json files: readJSON and the loop over
\* data.transactions inside try, the warning in catch
readSnapshot(file, index) ==
  IF file.read = "ok"
  THEN [index |-> index \cup FileIds(file), threw |-> FALSE]
  ELSE [index |-> index, threw |-> FALSE]

\* for (const file of jsonFiles): an exception leaving the body ends the loop
RECURSIVE LoadSnapshots(_, _, _)
LoadSnapshots(files, k, index) ==
  IF k > Len(files) THEN [index |-> index, threw |-> FALSE]
  ELSE IF ~files[k].json THEN LoadSnapshots(files, k + 1, index)
  ELSE LET r == readSnapshot(files[k], index)
       IN IF r.threw THEN r ELSE LoadSnapshots(files, k + 1, r.index)

\* loadProcessedOrders: fault names the directory whose ensureDir/readdir throws
\* ("data" ends in the outer catch, "shots" in the catch around the scan of the
\* screenshots); rejected tells whether the promise rejects.
loadProcessedOrders(index, files, names, fault) ==
  IF fault = "data" THEN [index |-> index, rejected |-> FALSE]
  ELSE LET r == LoadSnapshots(files, 1, index)
       IN IF r.threw THEN [index |-> r.index, rejected |-> FALSE]
          ELSE IF fault = "shots" THEN [index |-> r.index, rejected |-> FALSE]
          ELSE [index |-> r.index \cup ScreenshotIds(names), rejected |-> FALSE]

LoadInit ==
  /\ loadPc = "call"
  /\ dataDir \in UNION {[1..n -> DataFiles] : n \in 0..MaxFiles}
  /\ screenshotsDir \in SUBSET ShotNames
  /\ loadFault \in {"none", "data", "shots"}
  /\ loadResult = [index |-> {}, rejected |-> FALSE]

\* initialize() calls loadProcessedOrders on the empty set of the constructor
LoadApply ==
  /\ loadPc = "call"
  /\ loadResult' = loadProcessedOrders({}, dataDir, screenshotsDir, loadFault)
  /\ loadPc' = "done"
  /\ UNCHANGED <<dataDir, screenshotsDir, loadFault, notLoad>>

LoadNext == LoadApply

InitLoad == LoadInit /\ PoolIdle /\ ChunkIdle /\ ListIdle /\ MainIdle /\ RowIdle /\ ExtIdle /\ FilterIdle /\ RunsIdle /\ WorkerIdle /\ LoginIdle

SpecLoad == InitLoad /\ [][LoadNext]_vars

ReadableSnapshot(file) == file.json /\ file.read = "ok"

\* C12: when the directories were listed and reading a json file of the data
\* directory throws, the index still holds the ids of every other snapshot and of
\* the artifact names and nothing of the bad file; loadProcessedOrders never
\* rejects, so initialize does not fail on it.
C12_BadSnapshotSkipped ==
  loadPc = "done" =>
    /\ ~loadResult.rejected
    /\ loadFault = "none" =>
         \A k \in 1..Len(dataDir) :
           dataDir[k].json /\ dataDir[k].read # "ok" =>
             /\ \A j \in 1..Len(dataDir) :
                  ReadableSnapshot(dataDir[j]) => FileIds(dataDir[j]) \subseteq loadResult.index
             /\ ScreenshotIds(screenshotsDir) \subseteq loadResult.index
             /\ \A id \in loadResult.index :
                  \/ id \in ScreenshotIds(screenshotsDir)
                  \/ \E j \in 1..Len(dataDir) :
                       ReadableSnapshot(dataDir[j]) /\ id \in FileIds(dataDir[j])

C12_Witness ==
  /\ loadPc = "done"
  /\ loadFault = "none"
  /\ Len(dataDir) = 2
  /\ dataDir[1].read = "throws"
  /\ dataDir[2].ids = <<IdB, NoId>>
  /\ screenshotsDir = {[head |-> "order-", parts |-> IdA, ext |-> ".png"]}
  /\ loadResult.index = {IdA, IdB}

\* C13 (as claimed): after loadProcessedOrders the index is the union of the ids
\* of every readable snapshot and of the ids parsed from the order-*.png names of
\* the screenshots directory (when that directory can be listed), nothing else.
C13_IndexIsUnion ==
  loadPc = "done" =>
    loadResult.index =
      UNION {FileIds(dataDir[k]) : k \in {j \in 1..Len(dataDir) : ReadableSnapshot(dataDir[j])}}
        \cup (IF loadFault = "shots" THEN {} ELSE ScreenshotIds(screenshotsDir))

\* The ids extractTransactionFromRow can give a ref: the id of an order, from the
\* link or from the row text, and the synthetic `unknown-${Date.now()}`
PagerIds == {IdA, IdB, IdU}

\* path.join(screenshotsDir, `order-${transaction.orderId}.png`)
OrderScreenshotName(id) == [head |-> "order-", parts |-> id, ext |-> ".png"]

\* C31 (as claimed): for every id the pager can give a ref, when the artifact
\* order-<id>.png is in the screenshots directory and the directories can be
\* listed, the scan recovers exactly <id> from the name and the id is in the index.
C31_ArtifactNameRoundTrip ==
  loadPc = "done" /\ loadFault = "none" =>
    \A id \in PagerIds :
      OrderScreenshotName(id) \in screenshotsDir =>
        /\ MatchOrderName(OrderScreenshotName(id)) = id
        /\ id \in loadResult.index

\* ------------------------------------------------ specification of a run
\* The disk when the process starts: the order ids recorded in the readable
\* snapshot files of the data directory, and the order-<id>.png files; earlier
\* runs have left the first k orders, for any k up to MaxPrior.
Init ==
  /\ ChunkIdle
  /\ ListIdle
  /\ LoadIdle
  /\ MainIdle
  /\ RowIdle
  /\ ExtIdle
  /\ FilterIdle
  /\ RunsIdle
  /\ WorkerIdle
  /\ LoginIdle
  /\ pc = "new"
  /\ snapshotIds \in {{i \in PriorIds : i <= k} : k \in 0..MaxPrior}
  /\ shots = snapshotIds
  /\ processedOrders = {}
  /\ indexAtFilter = {}
  /\ listing = << >>
  /\ newTransactions = << >>
  /\ browsers = 0
  /\ contexts = 0
  /\ closed = << >>
  /\ chunks = << >>
  /\ wpc = [w \in Workers |-> "idle"]
  /\ widx = [w \in Workers |-> 0]
  /\ wexists = [w \in Workers |-> FALSE]
  /\ wresults = [w \in Workers |-> << >>]
  /\ transactionData = [transactions |-> << >>, totalTransactions |-> 0, totalAmount |-> 0]
  /\ poolError = FALSE
  /\ faults = 0
  /\ threw = [w \in Workers |-> {}]
  /\ captureOps = [i \in Ids |-> 0]
  /\ refundsFound = 0

\* initialize(): loadProcessedOrders unions the snapshot ids and the artifact ids
Initialize ==
  /\ FilterIdle
  /\ RunsIdle
  /\ WorkerIdle
  /\ LoginIdle
  /\ pc = "new"
  /\ processedOrders' = processedOrders \cup snapshotIds \cup shots
  /\ pc' = "ready"
  /\ UNCHANGED <<listing, newTransactions, browsers, contexts, chunks, wpc, widx,
                 wexists, wresults, shots, transactionData, poolError, faults, threw,
                 captureOps, refundsFound, indexAtFilter, snapshotIds, closed,
                 notPool>>

\* scrapeTransactions up to its first await in processTransactionsInParallel:
\* reach the list view (may throw), walk the listing, filter it, and either
\* dispatch the new refs or, when there are none, update the metadata and return.
ScrapeTransactions ==
  /\ pc = "ready"
  /\ \E reached \in BOOLEAN, l \in Listings :
       /\ ~reached => faults < MaxFaults /\ l = << >>
       /\ faults' = faults + (IF reached THEN 0 ELSE 1)
       /\ listing' = l
       /\ indexAtFilter' = processedOrders
       /\ newTransactions' = IF reached THEN FilterNew(l, processedOrders) ELSE << >>
       /\ pc' = IF ~reached THEN "failed"
                ELSE IF FilterNew(l, processedOrders) = << >> THEN "returned"
                ELSE "launch"
       /\ transactionData' = IF reached /\ FilterNew(l, processedOrders) = << >>
                             THEN WithMetadata(transactionData)
                             ELSE transactionData
  /\ UNCHANGED <<processedOrders, browsers, contexts, chunks, wpc, widx, wexists,
                 wresults, shots, poolError, threw, captureOps, refundsFound,
                 snapshotIds, closed,
                 notPool>>

\* One iteration of the launch loop: chromium.launch, browser.newContext and the
\* copy of the cookies each may throw; the browser and the context are pushed as
\* soon as they exist.
LaunchBrowser ==
  /\ pc = "launch"
  /\ browsers < PARALLEL_BROWSERS
  /\ \E out \in {"ok", "launch", "context", "cookies"} :
       /\ out # "ok" => faults < MaxFaults
       /\ faults' = faults + (IF out = "ok" THEN 0 ELSE 1)
       /\ browsers' = IF out = "launch" THEN browsers ELSE browsers + 1
       /\ contexts' = IF out \in {"ok", "cookies"} THEN contexts + 1 ELSE contexts
       /\ poolError' = (out # "ok")
       /\ pc' = IF out = "ok" THEN "launch" ELSE "cleanup"
  /\ UNCHANGED <<processedOrders, listing, newTransactions, chunks, wpc, widx, wexists,
                 wresults, shots, transactionData, threw, captureOps, refundsFound,
                 indexAtFilter, snapshotIds, closed,
                 notPool>>

\* chunkArray, then chunks.map: each callback runs to its first await (an empty
\* chunk returns [] at once), then the caller awaits Promise.all.
StartWorkers ==
  /\ pc = "launch"
  /\ browsers = PARALLEL_BROWSERS
  /\ chunks' = chunkArray(newTransactions, PARALLEL_BROWSERS)
  /\ wpc' = [w \in Workers |->
               IF w <= Len(chunks') /\ chunks'[w] # << >> THEN "newPage" ELSE "done"]
  /\ pc' = "await"
  /\ UNCHANGED <<processedOrders, listing, newTransactions, browsers, contexts, widx,
                 wexists, wresults, shots, transactionData, poolError, faults, threw,
                 captureOps, refundsFound, indexAtFilter, snapshotIds, closed,
                 notPool>>

\* A worker step that touches only the worker's own page (newPage, goto,
\* waitForLoadState, waitForTimeout) is taken together with the step after it that
\* reads or writes what the workers share (the screenshots directory).

\* The worker loop after scrapeOrderDetailsWithPage returned rec for job t:
\* results.push(rec); this.processedOrders.add(t.orderId); next comes the delay.
PushResult(w, t, rec, results) ==
  /\ wresults' = [wresults EXCEPT ![w] = Append(results, rec)]
  /\ processedOrders' = processedOrders \cup {t.orderId}
  /\ wpc' = [wpc EXCEPT ![w] = "delay"]

\* scrapeOrderDetailsWithPage for job t up to the existence check of the artifact:
\* page.goto and waitForLoadState (when the ref has a url), then fs.pathExists.
\* out names the step that throws ("ok": none); results is the worker's list so far.
JobNavigate(w, t, out, results) ==
  /\ threw' = [threw EXCEPT ![w] = IF out = "ok" THEN {} ELSE {out}]
  /\ IF out = "ok"
     THEN /\ wexists' = [wexists EXCEPT ![w] = t.orderId \in shots]
          /\ wpc' = [wpc EXCEPT ![w] = "capture"]
          /\ wresults' = [wresults EXCEPT ![w] = results]
          /\ UNCHANGED processedOrders
     ELSE /\ PushResult(w, t, DegradedRecord(t), results)
          /\ wexists' = [wexists EXCEPT ![w] = FALSE]

NavOutcomes(t) == IF t.orderDetailsUrl # << >> THEN {"ok", "goto", "wait"} ELSE {"ok"}

\* context.newPage() of worker w. When it throws the worker's promise rejects,
\* Promise.all rejects with it and the caller resumes in its finally block.
\* Otherwise the loop starts on the first job of the chunk.
WorkerNewPage(w) ==
  /\ pc = "await"
  /\ wpc[w] = "newPage"
  /\ \E ok \in BOOLEAN, out \in NavOutcomes(chunks[w][1]) :
       LET n == (IF ok THEN 0 ELSE 1) + (IF out = "ok" THEN 0 ELSE 1)
       IN /\ ~ok => out = "ok"
          /\ faults + n <= MaxFaults
          /\ faults' = faults + n
          /\ poolError' = ~ok
          /\ pc' = IF ok THEN pc ELSE "cleanup"
          /\ IF ok
             THEN /\ widx' = [widx EXCEPT ![w] = 1]
                  /\ JobNavigate(w, chunks[w][1], out, wresults[w])
             ELSE /\ wpc' = [wpc EXCEPT ![w] = "rejected"]
                  /\ UNCHANGED <<widx, wexists, wresults, processedOrders, threw>>
  /\ UNCHANGED <<listing, newTransactions, browsers, contexts, chunks, shots,
                 transactionData, captureOps, refundsFound, indexAtFilter, snapshotIds,
                 closed, notPool>>

\* The steps of the capture and of what follows it that threw
CaptureThrown(cap, failAt, dateOk) ==
  (IF cap = "fallback" THEN {"smart"} ELSE {})
    \cup (IF cap = "throw" THEN {"smart", "capture"} ELSE {})
    \cup (IF failAt # "none" THEN {"extract"} ELSE {})
    \cup (IF dateOk THEN {} ELSE {"date"})

\* The injected exceptions: the smart capture and its fallback count as one
CaptureFaults(cap, failAt, dateOk) ==
  (IF cap \in {"fallback", "throw"} THEN 1 ELSE 0)
    + (IF failAt # "none" THEN 1 ELSE 0) + (IF dateOk THEN 0 ELSE 1)

\* The rest of scrapeOrderDetailsWithPage: takeSmartOrderScreenshot unless the file
\* was found ("smart": captured; "fallback": the smart capture threw and the plain
\* viewport capture wrote the file; "throw": the plain capture threw too),
\* extractOrderDetailsWithPage, the body text for the date, createTransaction.
JobCapture(w) ==
  /\ pc = "await"
  /\ wpc[w] = "capture"
  /\ LET t == chunks[w][widx[w]]
     IN \E cap \in (IF wexists[w] THEN {"skip"} ELSE {"smart", "fallback", "throw"}),
           failAt \in {"none", "payment"},
           dateOk \in BOOLEAN :
          LET orderDetails == extractOrderDetailsWithPage(Doc(t.orderId), failAt)
              full == cap # "throw" /\ dateOk
          IN /\ cap = "throw" => failAt = "none" /\ dateOk
             /\ faults + CaptureFaults(cap, failAt, dateOk) <= MaxFaults
             /\ faults' = faults + CaptureFaults(cap, failAt, dateOk)
             /\ threw' = [threw EXCEPT ![w] = CaptureThrown(cap, failAt, dateOk)]
             /\ shots' = IF cap \in {"smart", "fallback"} THEN shots \cup {t.orderId} ELSE shots
             /\ captureOps' = IF cap \in {"smart", "fallback"}
                              THEN [captureOps EXCEPT ![t.orderId] = @ + 1]
                              ELSE captureOps
             /\ refundsFound' = refundsFound + (IF full THEN orderDetails.refund ELSE 0)
             /\ PushResult(w, t,
                           IF full THEN DetailedRecord(t, Doc(t.orderId).date, orderDetails)
                           ELSE DegradedRecord(t),
                           wresults[w])
  /\ UNCHANGED <<pc, listing, newTransactions, browsers, contexts, chunks, widx, wexists,
                 transactionData, poolError, indexAtFilter, snapshotIds, closed,
                 notPool>>

\* page.waitForTimeout(1000) inside the worker's try: when it throws, the catch
\* pushes createTransaction(transaction); either way the loop goes on, to the
\* next job of the chunk or to the end of the callback.
JobDelay(w) ==
  /\ pc = "await"
  /\ wpc[w] = "delay"
  /\ LET t == chunks[w][widx[w]]
         more == widx[w] < Len(chunks[w])
     IN \E ok \in BOOLEAN,
           out \in (IF more THEN NavOutcomes(chunks[w][widx[w] + 1]) ELSE {"ok"}) :
          LET n == (IF ok THEN 0 ELSE 1) + (IF out = "ok" THEN 0 ELSE 1)
              results == IF ok THEN wresults[w] ELSE Append(wresults[w], createTransaction(t))
          IN /\ faults + n <= MaxFaults
             /\ faults' = faults + n
             /\ IF more
                THEN /\ widx' = [widx EXCEPT ![w] = @ + 1]
                     /\ JobNavigate(w, chunks[w][widx[w] + 1], out, results)
                ELSE /\ wpc' = [wpc EXCEPT ![w] = "done"]
                     /\ wresults' = [wresults EXCEPT ![w] = results]
                     /\ threw' = [threw EXCEPT ![w] = {}]
                     /\ wexists' = [wexists EXCEPT ![w] = FALSE]
                     /\ UNCHANGED <<widx, processedOrders>>
  /\ UNCHANGED <<pc, listing, newTransactions, browsers, contexts, chunks, shots,
                 transactionData, poolError, captureOps, refundsFound, indexAtFilter,
                 snapshotIds, closed, notPool>>

\* Promise.all resolved: the results are appended in chunk order
MergeResults ==
  /\ pc = "await"
  /\ \A w \in Workers : wpc[w] = "done"
  /\ transactionData' =
       [transactionData EXCEPT !.transactions = @ \o Flatten([w \in Workers |-> wresults[w]])]
  /\ pc' = "cleanup"
  /\ UNCHANGED <<processedOrders, listing, newTransactions, browsers, contexts, chunks,
                 wpc, widx, wexists, wresults, shots, poolError, faults, threw,
                 captureOps, refundsFound, indexAtFilter, snapshotIds, closed,
                 notPool>>

\* The finally block: for (const browser of browsers) try { await browser.close() }
\* catch { log }. failing holds the browsers whose close() throws; the result
\* lists, in loop order, what became of each attempt.
RECURSIVE CloseUntilThrow(_, _, _)
CloseUntilThrow(k, n, failing) ==
  IF k > n THEN << >>
  ELSE IF k \in failing THEN <<"threw">>
  ELSE <<"closed">> \o CloseUntilThrow(k + 1, n, failing)

\* the loop with the try/catch around the whole loop instead of around each close()
CloseBrowsersNoCatch(n, failing) == CloseUntilThrow(1, n, failing)

CloseBrowsers(n, failing) ==
  [k \in 1..n |-> IF k \in failing THEN "threw" ELSE "closed"]

\* The finally block of processTransactionsInParallel; then the exception, if
\* any, goes up through scrapeTransactions.
Cleanup ==
  /\ pc = "cleanup"
  /\ \E failing \in SUBSET (1..browsers) :
       /\ faults + Cardinality(failing) <= MaxFaults
       /\ faults' = faults + Cardinality(failing)
       /\ closed' = CloseBrowsers(browsers, failing)
  /\ pc' = IF poolError THEN "failed" ELSE "metadata"
  /\ UNCHANGED <<processedOrders, listing, newTransactions, browsers, contexts, chunks,
                 wpc, widx, wexists, wresults, shots, transactionData, poolError,
                 threw, captureOps, refundsFound, indexAtFilter, snapshotIds,
                 notPool>>

\* Back in scrapeTransactions: the metadata update, then return
UpdateMetadata ==
  /\ pc = "metadata"
  /\ transactionData' = WithMetadata(transactionData)
  /\ pc' = "returned"
  /\ UNCHANGED <<processedOrders, listing, newTransactions, browsers, contexts, chunks,
                 wpc, widx, wexists, wresults, shots, poolError, faults, threw,
                 captureOps, refundsFound, indexAtFilter, snapshotIds, closed,
                 notPool>>

Next ==
  \/ Initialize
  \/ ScrapeTransactions
  \/ LaunchBrowser
  \/ StartWorkers
  \/ \E w \in Workers : WorkerNewPage(w)
  \/ \E w \in Workers : JobCapture(w)
  \/ \E w \in Workers : JobDelay(w)
  \/ MergeResults
  \/ Cleanup
  \/ UpdateMetadata

Spec == Init /\ [][Next]_vars

\* ----------------------------------------------------- claims about a run
Occurrences(seq, id) == Cardinality({k \in 1..Len(seq) : seq[k].orderId = id})
Jobs == Flatten(chunks)
Returned == pc \in {"metadata", "returned"}

\* The minimal record of ref t: its id, date and amount, every other field at
\* its default
MinimalRecord(t) ==
  [orderId |-> t.orderId, date |-> t.date, total |-> t.total, status |-> "unknown",
   recipient |-> "", address |-> "", items |-> << >>, orderScreenshot |-> << >>,
   paymentMethod |-> "", trackingNumber |-> ""]

\* C1: no ref whose id is in the dedup index when the filter runs is handed to
\* processTransactionsInParallel or becomes a job of a worker, and every ref
\* whose id is not in the index is handed over.
C1_IndexedIdsNotDispatched ==
  pc \notin {"new", "ready"} =>
    /\ \A k \in 1..Len(newTransactions) : newTransactions[k].orderId \notin indexAtFilter
    /\ \A w \in Workers : \A k \in 1..(IF chunks = << >> THEN 0 ELSE Len(chunks[w])) :
         chunks[w][k].orderId \notin indexAtFilter
    /\ pc # "failed" =>
         \A id \in Ids \ indexAtFilter :
           Occurrences(newTransactions, id) = Occurrences(listing, id)
    /\ pc = "await" => Jobs = newTransactions

C1_Witness ==
  /\ pc = "await"
  /\ indexAtFilter = {1}
  /\ Len(listing) = MaxRefs
  /\ Len(Jobs) = MaxRefs - 1
  /\ \E k \in 1..Len(listing) : listing[k].orderId = 1

\* C2 (as claimed): when processTransactionsInParallel completes normally the
\* record list has gained exactly one record per job.
C2_OneRecordPerJob ==
  Returned => \A id \in Ids :
    Occurrences(transactionData.transactions, id) = Occurrences(newTransactions, id)

\* C4 (as claimed): the screenshot operation for the path of an order is
\* performed at most once.
C4_CaptureAtMostOnce ==
  \A id \in Ids : captureOps[id] <= 1

\* C6 (as claimed): after scrapeTransactions returns, totalTransactions is the
\* number of records and totalAmount is the sum of the amounts less the refunds
\* found for the records.
C6_NetTotal ==
  pc = "returned" =>
    /\ transactionData.totalTransactions = Len(transactionData.transactions)
    /\ transactionData.totalAmount =
         SumSeq([k \in 1..Len(transactionData.transactions) |->
                   transactionData.transactions[k].total]) - refundsFound

\* The record scrapeOrderDetailsWithPage returned for the job worker w has just left
JobRecord(w) == wresults[w][Len(wresults[w])]
JobRef(w) == chunks[w][widx[w]]

\* C9 (as claimed): when navigation, render wait, capture or extraction throws,
\* the job yields the minimal record.
C9_AnyThrowGivesMinimal ==
  \A w \in Workers :
    wpc[w] = "delay" /\ threw[w] # {} => JobRecord(w) = MinimalRecord(JobRef(w))

\* C9 (amended): an exception that leaves the try block of
\* scrapeOrderDetailsWithPage (navigation, render wait, the plain viewport capture,
\* the body text read for the date) gives the minimal record; one caught inside the
\* smart capture or inside extractOrderDetailsWithPage gives a record that keeps
\* the artifact path; either way the worker handles every job of its chunk and
\* the run fails only on an exception of the pool itself (before the workers
\* start: launch, context, cookies; or the page of a worker).
C9_EscapingThrowGivesMinimal ==
  /\ \A w \in Workers :
       wpc[w] = "delay" =>
         /\ threw[w] \cap {"goto", "wait", "capture", "date"} # {}
              => JobRecord(w) = MinimalRecord(JobRef(w))
         /\ threw[w] \subseteq {"smart", "extract"}
              => JobRecord(w).orderScreenshot = ScreenshotPath(JobRef(w).orderId)
  /\ \A w \in Workers :
       wpc[w] = "done" /\ chunks # << >> => Len(wresults[w]) >= Len(chunks[w])
  /\ poolError =>
       \/ chunks = << >>
       \/ \E w \in Workers : wpc[w] = "rejected"

C9_Witness ==
  /\ pc = "returned"
  /\ chunks # << >>
  /\ Len(chunks[1]) = 2
  /\ wresults[1][1] = MinimalRecord(chunks[1][1])
  /\ wresults[1][2].orderScreenshot = ScreenshotPath(chunks[1][2].orderId)

\* C10 (as claimed): when the page of one worker cannot be opened, the records
\* the sibling workers produced are still merged into the record list.
C10_SiblingRecordsMerged ==
  (pc = "failed" /\ \E w \in Workers : wpc[w] = "rejected") =>
    \A w \in Workers : \A k \in 1..Len(wresults[w]) :
      \E j \in 1..Len(transactionData.transactions) :
        transactionData.transactions[j] = wresults[w][k]

\* C11: once processTransactionsInParallel has been left, by return or by
\* exception, close() was attempted on every browser launched in the call, one
\* attempt each in launch order, whether or not an earlier close() threw; no
\* close() is attempted before the finally block.
C11_EveryBrowserCloseAttempted ==
  /\ pc \in {"failed", "metadata", "returned"} =>
       /\ Len(closed) = browsers
       /\ \A k \in 1..browsers : closed[k] \in {"closed", "threw"}
  /\ pc \in {"new", "ready", "launch", "await", "cleanup"} => closed = << >>

C11_Witness ==
  /\ pc = "returned"
  /\ browsers = PARALLEL_BROWSERS
  /\ closed = <<"closed", "threw", "closed", "closed">>
  /\ transactionData.transactions # << >>
\* C14 (as claimed): every id added to the dedup index during the run belongs to
\* a record that was fully processed; the id of a job that degraded to a
\* minimal record is not added.
C14_IndexHoldsOnlyFullRecords ==
  pc \notin {"new", "ready"} =>
    \A id \in processedOrders \ indexAtFilter :
      \E w \in Workers : \E k \in 1..Len(wresults[w]) :
        /\ wresults[w][k].orderId = id
        /\ wresults[w][k].orderScreenshot = ScreenshotPath(id)

\* C33 (as claimed): the record built for a job that ran without an exception
\* on an order whose detail page shows a refund carries that refund, and so
\* does the record list persisted after the run.
C33_RefundCarriedByRecord ==
  \A w \in Workers :
    (/\ pc = "await"
     /\ wpc[w] = "delay"
     /\ threw[w] = {}
     /\ DocRefund(JobRef(w).orderId) > 0)
    => GetNum(JobRecord(w), "refund", 0) = DocRefund(JobRef(w).orderId)

\* C37 (as claimed): while a worker is between its existence check of
\* order-<id>.png, which found no file, and the end of its capture, no other
\* worker is between the check and the capture for the same path.
C37_CaptureWindowsDisjoint ==
  pc = "await" =>
    \A w1, w2 \in Workers :
      (/\ w1 # w2
       /\ wpc[w1] = "capture" /\ wpc[w2] = "capture"
       /\ ~wexists[w1])
      => ScreenshotPath(JobRef(w1).orderId) # ScreenshotPath(JobRef(w2).orderId)

\* The order ids of a list of refs or of records, in the order of the list
OrderIds(list) == [k \in 1..Len(list) |-> list[k].orderId]

\* C38 (as claimed): when processTransactionsInParallel has completed
\* normally, the records appended to the record list are those of the
\* filtered refs, in the order of the filtered list.
C38_RecordsInFilteredOrder ==
  Returned => OrderIds(transactionData.transactions) = OrderIds(newTransactions)

\* C27 (as claimed): while the workers process their chunks the dedup index is
\* read-only: no step of a worker changes processedOrders, which stays what it
\* was when the listing was filtered.
C27_IndexReadOnlyToWorkers ==
  pc = "await" => processedOrders = indexAtFilter

\* ------------------------------------------------ specification of main()
\* The inner try of main is left, with an exception (exc) or without: finally
ToFinally(m, exc) == [m EXCEPT !.pc = "finally", !.pending = exc]

\* The sizes of the chunks of n refs
ChunkLens(n) ==
  [w \in Workers |-> Len(chunkArray(IdentitySeq(n), PARALLEL_BROWSERS)[w])]

\* saveData with the write error caught and logged
saveDataSwallow(ok) == [saved |-> ok, threw |-> FALSE]

\* saveData: fs.writeJSON of the whole transactionData; its exception is not caught
saveData(ok) == [saved |-> ok, threw |-> ~ok]

\* await scraper.initialize()
MainInitialize ==
  /\ main.pc = "initialize"
  /\ \E ok \in BOOLEAN :
       main' = IF ok THEN [main EXCEPT !.pc = "login"] ELSE ToFinally(main, TRUE)
  /\ UNCHANGED notMain

\* await scraper.login(): on false the session is closed and process.exit(1)
MainLogin ==
  /\ main.pc = "login"
  /\ \E out \in {"ok", "refused", "throws"} :
       main' = CASE out = "ok" -> [main EXCEPT !.pc = "navigate"]
                 [] out = "refused" -> [main EXCEPT !.pc = "exited", !.exitCode = 1,
                                                    !.sessionClosed = TRUE]
                 [] out = "throws" -> ToFinally(main, TRUE)
  /\ UNCHANGED notMain

\* scrapeTransactions up to the page walk: navigateToTransactions catches what
\* goto and waitForLoadState throw and returns false, which the caller does not
\* read; takeScreenshot logs its error; page.waitForTimeout(3000) throws when the
\* page is gone, and scrapeTransactions rethrows.
MainNavigate ==
  /\ main.pc = "navigate"
  /\ \E reached \in BOOLEAN, waitOk \in BOOLEAN :
       main' = IF waitOk
               THEN [main EXCEPT !.pc = "walk", !.listReached = reached]
               ELSE ToFinally([main EXCEPT !.listReached = reached], TRUE)
  /\ UNCHANGED notMain

\* scrapeTransactionList and the filter. "ok": the walk ends normally with n new
\* refs (no row matches on a page that is not the list view); "transient": a
\* step of the walk throws, the catch block completes and the empty list is
\* returned; "unusable": the page is gone, the body text read in the catch block
\* throws too and the exception goes up to main.
MainWalk ==
  /\ main.pc = "walk"
  /\ \E out \in {"ok", "transient", "unusable"}, n \in 0..MaxMainJobs :
       /\ (out # "ok" \/ ~main.listReached) => n = 0
       /\ main' = IF out = "unusable" THEN ToFinally([main EXCEPT !.walk = out], TRUE)
                  ELSE [main EXCEPT !.walk = out, !.newRefs = n,
                                    !.pc = IF n = 0 THEN "metadata" ELSE "launch"]
  /\ UNCHANGED notMain

\* processTransactionsInParallel up to Promise.all: the launch loop (a throw goes
\* through the finally block up to main), chunkArray, the callbacks
MainLaunch ==
  /\ main.pc = "launch"
  /\ \E ok \in BOOLEAN :
       main' = IF ok THEN [main EXCEPT !.pc = "pool", !.left = ChunkLens(main.newRefs)]
               ELSE ToFinally(main, TRUE)
  /\ UNCHANGED notMain

\* Worker w starts the next job of its chunk; before the first one it opens its
\* page, and when that throws Promise.all rejects.
MainJobStart(w) ==
  /\ main.pc = "pool"
  /\ main.left[w] > 0
  /\ ~main.busy[w]
  /\ \E ok \in BOOLEAN :
       /\ ~ok => main.left[w] = ChunkLens(main.newRefs)[w]
       /\ main' = IF ok THEN [main EXCEPT !.left[w] = @ - 1, !.busy[w] = TRUE]
                  ELSE ToFinally(main, TRUE)
  /\ UNCHANGED notMain

\* scrapeOrderDetailsWithPage returns (a full or a minimal record); results.push
MainJobEnd(w) ==
  /\ main.pc = "pool"
  /\ main.busy[w]
  /\ main' = [main EXCEPT !.busy[w] = FALSE, !.reported = @ + 1]
  /\ UNCHANGED notMain

\* Promise.all resolves: merge, finally block, back in scrapeTransactions
MainMerge ==
  /\ main.pc = "pool"
  /\ \A w \in Workers : main.left[w] = 0 /\ ~main.busy[w]
  /\ main' = [main EXCEPT !.pc = "metadata"]
  /\ UNCHANGED notMain

\* The metadata update; scrapeTransactions returns
MainMetadata ==
  /\ main.pc = "metadata"
  /\ main' = [main EXCEPT !.pc = "save", !.metadataDone = TRUE]
  /\ UNCHANGED notMain

\* await scraper.saveData(jsonFilename)
MainSave ==
  /\ main.pc = "save"
  /\ \E ok \in BOOLEAN :
       LET r == saveData(ok)
           m == [main EXCEPT !.writes = @ + 1, !.saved = r.saved]
       IN main' = IF r.threw THEN ToFinally(m, TRUE) ELSE [m EXCEPT !.pc = "report"]
  /\ UNCHANGED notMain

\* await generator.generateHTML(jsonPath, htmlPath)
MainReport ==
  /\ main.pc = "report"
  /\ \E ok \in BOOLEAN : main' = ToFinally([main EXCEPT !.reportDone = ok], ~ok)
  /\ UNCHANGED notMain

\* finally { await scraper.close() }; with an exception pending (or thrown by
\* close) the outer catch calls process.exit(1); otherwise main returns and the
\* process ends with status 0.
MainFinally ==
  /\ main.pc = "finally"
  /\ \E closeOk \in BOOLEAN :
       main' = [main EXCEPT !.pc = "exited", !.sessionClosed = TRUE,
                            !.pending = main.pending \/ ~closeOk,
                            !.exitCode = IF main.pending \/ ~closeOk THEN 1 ELSE 0]
  /\ UNCHANGED notMain

\* process.on('SIGINT' / 'SIGTERM'): log, process.exit(0)
Signal ==
  /\ main.pc \notin {"off", "exited"}
  /\ main' = [main EXCEPT !.pc = "exited", !.exitCode = 0, !.signalled = TRUE]
  /\ UNCHANGED notMain

MainNext ==
  \/ MainInitialize
  \/ MainLogin
  \/ MainNavigate
  \/ MainWalk
  \/ MainLaunch
  \/ \E w \in Workers : MainJobStart(w)
  \/ \E w \in Workers : MainJobEnd(w)
  \/ MainMerge
  \/ MainMetadata
  \/ MainSave
  \/ MainReport
  \/ MainFinally
  \/ Signal

InitMain == main = MainAt("initialize") /\ PoolIdle /\ ChunkIdle /\ ListIdle /\ LoadIdle /\ RowIdle /\ ExtIdle /\ FilterIdle /\ RunsIdle /\ WorkerIdle /\ LoginIdle

SpecMain == InitMain /\ [][MainNext]_vars

\* C15 (as claimed): when the process has exited after an interrupt signal, no
\* job is in flight: every job that had started has finished or degraded.
C15_NoJobInFlightAtSignalExit ==
  main.pc = "exited" /\ main.signalled => \A w \in Workers : ~main.busy[w]

\* C16 (as claimed): when the list view was not reached, or the walk failed with
\* the page unusable, the process (unless interrupted) exits with a non-zero
\* status, the session closed and no snapshot written.
C16_UnreachableListFailsRun ==
  (/\ main.pc = "exited"
   /\ ~main.signalled
   /\ main.walk # "none"
   /\ ~main.listReached \/ main.walk = "unusable")
    => /\ main.exitCode # 0
       /\ ~main.saved
       /\ main.sessionClosed

\* C17: the snapshot is written at most once, only after every worker has
\* reported and the metadata was computed, and exactly once in a run that ends
\* with status 0 on its own; when the write fails the session is closed, no
\* report is generated and the exit status is 1 (unless a signal ends the
\* process first).
C17_OneWriteAndFatalOnFailure ==
  /\ main.writes <= 1
  /\ main.writes = 1 =>
       /\ main.metadataDone
       /\ \A w \in Workers : main.left[w] = 0 /\ ~main.busy[w]
       /\ main.reported = main.newRefs
  /\ main.pc = "exited" /\ ~main.signalled /\ main.exitCode = 0 =>
       main.writes = 1 /\ main.saved
  /\ main.reportDone => main.saved
  /\ main.pc = "exited" /\ ~main.signalled /\ main.writes = 1 /\ ~main.saved =>
       /\ main.exitCode = 1
       /\ main.sessionClosed
       /\ ~main.reportDone

C17_Witness ==
  /\ main.pc = "exited"
  /\ ~main.signalled
  /\ main.newRefs = MaxMainJobs
  /\ main.reported = MaxMainJobs
  /\ main.writes = 1
  /\ ~main.saved
  /\ main.exitCode = 1
  /\ main.sessionClosed

\* ------------------------------- specification of extractTransactionFromRow
\* The pieces an href is made of: the parameter name, the separator, an order
\* id, the scheme, and "x" for any other text (without '&' and 'orderID=')
HrefPieces == {"orderID=", "&", "113-1234567-1234567", "http", "x"}
Hrefs == UNION {[1..n -> HrefPieces] : n \in 1..MaxHref}

\* The selector a[href*="order"], a[href*="gp/your-account"] matches a link only
\* through a piece of its href that can hold one of the two texts
SelectorMatches(href) == \E k \in 1..Len(href) : href[k] \in {"orderID=", "x"}

\* No amount, $25, $1,234.50 and $1,234,567.89
AmountTexts ==
  {NoAmount, [groups |-> <<25>>, cents |-> 0], [groups |-> <<1, 234>>, cents |-> 50],
   [groups |-> <<1, 234, 567>>, cents |-> 89]}

RowTexts ==
  {[null |-> TRUE, code |-> << >>, amount |-> NoAmount]}
    \cup {[null |-> FALSE, code |-> c, amount |-> a] :
            c \in {<< >>, <<"D01-7654321-7654321">>}, a \in AmountTexts}
RowLinks ==
  {[found |-> FALSE, href |-> << >>]}
    \cup {[found |-> TRUE, href |-> h] : h \in {g \in Hrefs : SelectorMatches(g)}}

\* [^&]+ from piece i on
RECURSIVE TakeUntilAmp(_, _)
TakeUntilAmp(href, i) ==
  IF i > Len(href) \/ href[i] = "&" THEN << >>
  ELSE <<href[i]>> \o TakeUntilAmp(href, i + 1)

\* href.match(/orderID=([^&]+)/) tried from piece i on: the group of the
\* leftmost match, << >> when there is none
RECURSIVE MatchOrderIdParam(_, _)
MatchOrderIdParam(href, i) ==
  IF i > Len(href) THEN << >>
  ELSE IF href[i] = "orderID=" /\ TakeUntilAmp(href, i + 1) # << >>
       THEN TakeUntilAmp(href, i + 1)
       ELSE MatchOrderIdParam(href, i + 1)

\* href.startsWith('http') ? href : config.get('amazon.baseUrl') + href
AbsoluteUrl(href) == IF href[1] = "http" THEN href ELSE <<"baseUrl">> \o href

\* `https://www.amazon.com/gp/your-account/order-details?orderID=${orderId}`
ConstructedUrl(orderId) == <<"order-details?orderID=">> \o orderId

\* the text pattern tried whatever the link gave
UseTextPatternAlways(orderId, text) == ~text.null

\* if (!orderId && rowText)
UseTextPattern(orderId, text) == orderId = << >> /\ ~text.null

\* amountMatch[1].replace(',', ''): a string pattern replaces its first
\* occurrence only, so the first two groups become one run of digits
ReplaceComma(groups) ==
  IF Len(groups) < 2 THEN groups
  ELSE <<groups[1] * 1000 + groups[2]>> \o SubSeq(groups, 3, Len(groups))

\* parseFloat, in cents: the number ends at the first character that cannot
\* continue it, so the point and the cents are read only when no comma is left
parseFloat(groups, cents) ==
  IF Len(groups) = 1 THEN groups[1] * 100 + cents ELSE groups[1] * 100

\* let total = 0; if (amountMatch) total = parseFloat(amountMatch[1].replace(',', ''))
ParseAmount(amount) ==
  IF amount.groups = << >> THEN 0
  ELSE parseFloat(ReplaceComma(amount.groups), amount.cents)

\* a ref only for a row with both an id and an amount
HasBasicInfoBoth(orderId, total) == orderId # << >> /\ total > 0

\* if (orderId || total > 0)
HasBasicInfo(orderId, total) == orderId # << >> \/ total > 0

\* extractTransactionFromRow: << >> for null, <<ref>> for a ref; total is in cents
extractTransactionFromRow(row) ==
  IF row.throws THEN << >>
  ELSE LET linkId == IF row.link.found THEN MatchOrderIdParam(row.link.href, 1) ELSE << >>
           linkUrl == IF row.link.found THEN AbsoluteUrl(row.link.href) ELSE << >>
           total == IF row.text.null THEN 0 ELSE ParseAmount(row.text.amount)
           byText == UseTextPattern(linkId, row.text) /\ row.text.code # << >>
           orderId == IF byText THEN row.text.code ELSE linkId
           textUrl == IF byText THEN ConstructedUrl(orderId) ELSE linkUrl
           orderDetailsUrl == IF orderId # << >> /\ textUrl = << >>
                              THEN ConstructedUrl(orderId) ELSE textUrl
       IN IF HasBasicInfo(orderId, total)
          THEN <<[orderId |-> IF orderId # << >> THEN orderId ELSE <<"unknown-", row.now>>,
                  date |-> "", total |-> total, orderDetailsUrl |-> orderDetailsUrl]>>
          ELSE << >>

RowInit ==
  /\ rowPc = "call"
  /\ rowIn \in [throws : BOOLEAN, text : RowTexts, link : RowLinks, now : {"t1"}]
  /\ rowOut = << >>

RowApply ==
  /\ rowPc = "call"
  /\ rowOut' = extractTransactionFromRow(rowIn)
  /\ rowPc' = "done"
  /\ UNCHANGED <<rowIn, notRow>>

RowNext == RowApply

InitRow == RowInit /\ PoolIdle /\ ChunkIdle /\ ListIdle /\ LoadIdle /\ MainIdle /\ ExtIdle /\ FilterIdle /\ RunsIdle /\ WorkerIdle /\ LoginIdle

SpecRow == InitRow /\ [][RowNext]_vars

\* In href the pieces k+1..j are the value of the first orderID= parameter that
\* has one: no '&' in them, and the end of the href or a '&' after them
FirstOrderIdValue(href, k, j) ==
  /\ href[k] = "orderID="
  /\ k < j
  /\ \A i \in (k + 1)..j : href[i] # "&"
  /\ j = Len(href) \/ href[j + 1] = "&"
  /\ \A i \in 1..(k - 1) : href[i] = "orderID=" => href[i + 1] = "&"

\* C18: when the link matched in the row has an href holding orderID=<v>, the
\* ref of the row has id <v>, the text up to the next '&', whatever id-shaped
\* code the row text holds; from orderID=113-1234567-1234567 the id is
\* 113-1234567-1234567. (A row on which a DOM call throws yields no ref.)
C18_LinkIdTakesPrecedence ==
  rowPc = "done" /\ rowIn.link.found =>
    \A k \in 1..Len(rowIn.link.href) : \A j \in 1..Len(rowIn.link.href) :
      FirstOrderIdValue(rowIn.link.href, k, j) =>
        IF rowIn.throws THEN rowOut = << >>
        ELSE /\ Len(rowOut) = 1
             /\ rowOut[1].orderId = SubSeq(rowIn.link.href, k + 1, j)

C18_Witness ==
  /\ rowPc = "done"
  /\ rowIn.link.href = <<"orderID=", "113-1234567-1234567", "&">>
  /\ rowIn.text.code = <<"D01-7654321-7654321">>
  /\ Len(rowOut) = 1
  /\ rowOut[1].orderId = <<"113-1234567-1234567">>

\* The number an amount text stands for, in cents, its separators removed
RECURSIVE DigitsValue(_, _)
DigitsValue(groups, k) ==
  IF k = 0 THEN 0 ELSE DigitsValue(groups, k - 1) * 1000 + groups[k]
NumericValue(amount) == DigitsValue(amount.groups, Len(amount.groups)) * 100 + amount.cents

\* C32 (as claimed): for a row whose text shows a $-prefixed amount, with any
\* number of thousands separators, the total of the ref is the number the amount
\* stands for with all its separators removed.
C32_TotalIsAmountShown ==
  rowPc = "done" /\ ~rowIn.throws /\ ~rowIn.text.null /\ rowIn.text.amount # NoAmount =>
    /\ Len(rowOut) = 1
    /\ rowOut[1].total = NumericValue(rowIn.text.amount)

\* What the three tiers find in the row handed over
LinkGivesId ==
  /\ rowIn.link.found
  /\ \E k \in 1..Len(rowIn.link.href) : \E j \in 1..Len(rowIn.link.href) :
       FirstOrderIdValue(rowIn.link.href, k, j)
TextGivesCode == ~rowIn.text.null /\ rowIn.text.code # << >>
TextGivesAmount == ~rowIn.text.null /\ NumericValue(rowIn.text.amount) > 0

\* C34: extractTransactionFromRow returns a ref whenever the link gives an id,
\* the row text an id-shaped code, or the row text a positive amount, and null
\* only when none of them does. (When a DOM call on the row throws, which
\* happens before any of the patterns is tried, it returns null.)
C34_RefUnlessNoTierGives ==
  rowPc = "done" =>
    IF rowIn.throws THEN rowOut = << >>
    ELSE IF LinkGivesId \/ TextGivesCode \/ TextGivesAmount THEN Len(rowOut) = 1
    ELSE rowOut = << >>

C34_Witness ==
  /\ rowPc = "done"
  /\ ~rowIn.throws
  /\ ~LinkGivesId
  /\ ~TextGivesCode
  /\ TextGivesAmount
  /\ Len(rowOut) = 1
  /\ rowOut[1].orderId = <<"unknown-", rowIn.now>>
  /\ rowOut[1].total > 0

\* ----------------------------- specification of extractOrderDetailsWithPage
\* In the DOM the text of the parent holds the text of its children: an amount
\* among the siblings is an amount in the parent too
RefundLabels ==
  {[parent |-> 0, siblings |-> 0], [parent |-> 1250, siblings |-> 0],
   [parent |-> 5000, siblings |-> 1250]}
Docs ==
  [recipient : {"r"}, address : {"a"}, paymentMethod : {"", "p"},
   refundLabels : UNION {[1..n -> RefundLabels] : n \in 0..MaxLabels},
   bodyRefund : {0, 1250},
   items : {<< >>, <<"item">>, <<"throws", "item">>, <<"null">>},
   date : {"d"}]
    \cup [recipient : {""}, address : {""}, paymentMethod : {"p"},
          refundLabels : {<< >>}, bodyRefund : {0, 1250}, items : {<<"item">>},
          date : {"d"}]

ExtInit ==
  /\ extPc = "call"
  /\ extIn \in [doc : Docs, failAt : {"none"} \cup {ExtractSteps[k] : k \in 1..Len(ExtractSteps)}]
  /\ extOut = EmptyOrderDetails

ExtApply ==
  /\ extPc = "call"
  /\ extOut' = extractOrderDetailsWithPage(extIn.doc, extIn.failAt)
  /\ extPc' = "done"
  /\ UNCHANGED <<extIn, notExt>>

ExtNext == ExtApply

InitExt == ExtInit /\ PoolIdle /\ ChunkIdle /\ ListIdle /\ LoadIdle /\ MainIdle /\ RowIdle /\ FilterIdle /\ RunsIdle /\ WorkerIdle /\ LoginIdle

SpecExt == InitExt /\ [][ExtNext]_vars

\* C19 (as claimed): from a document without a 'Refund Total' element whose
\* plain text shows "Refund Total ... $12.50" (1250 cents), the refund of the
\* extracted details is 12.50.
C19_RefundFromPlainText ==
  (/\ extPc = "done"
   /\ extIn.failAt = "none"
   /\ extIn.doc.refundLabels = << >>
   /\ extIn.doc.bodyRefund = 1250)
    => extOut.refund = 1250

\* C20 (as claimed): each field is extracted independently: whatever step
\* fails, every other field is populated from the document.
C20_FieldsIndependent ==
  extPc = "done" =>
    /\ extIn.failAt # "address" =>
         extOut.recipient = extIn.doc.recipient /\ extOut.address = extIn.doc.address
    /\ extIn.failAt # "payment" => extOut.paymentMethod = extIn.doc.paymentMethod
    /\ extIn.failAt # "refund" => extOut.refund = RefundLoop(extIn.doc.refundLabels, 1)
    /\ extIn.failAt # "items" => extOut.items = ItemsOf(extIn.doc.items)

\* ------------------------------------------- specification of the filter
\* Every listing of at most MaxFilterLen refs of the orders 1..MaxFilterIds,
\* with every index over these orders
FilterIds == 1..MaxFilterIds
RefLists ==
  UNION {[1..n -> {BasicTransaction(i) : i \in FilterIds}] : n \in 0..MaxFilterLen}

FilterInit ==
  \E transactions \in RefLists, index \in SUBSET FilterIds :
    filt = FilterAt("call", transactions, index)

\* allTransactions.filter(transaction => !this.processedOrders.has(transaction.orderId))
FilterOnce ==
  /\ filt.pc = "call"
  /\ filt' = [filt EXCEPT !.pc = "once",
                          !.once = FilterNew(filt.transactions, filt.index)]
  /\ UNCHANGED notFilter

\* the same filter, with the same index, over what it returned
FilterTwice ==
  /\ filt.pc = "once"
  /\ filt' = [filt EXCEPT !.pc = "twice",
                          !.twice = FilterNew(filt.once, filt.index)]
  /\ UNCHANGED notFilter

FilterNext ==
  \/ FilterOnce
  \/ FilterTwice

InitFilter ==
  /\ FilterInit /\ PoolIdle /\ ChunkIdle /\ ListIdle /\ LoadIdle /\ MainIdle
  /\ RowIdle /\ ExtIdle /\ RunsIdle /\ WorkerIdle /\ LoginIdle

SpecFilter == InitFilter /\ [][FilterNext]_vars

\* The positions of the listing whose id is not in the index, and the k-th of them
KeptPositions ==
  {k \in 1..Len(filt.transactions) : filt.transactions[k].orderId \notin filt.index}
NthKept(i) ==
  CHOOSE k \in KeptPositions : Cardinality({j \in KeptPositions : j < k}) = i - 1

\* C21: the filter returns the refs whose id is not in the index, all of them
\* and no other, in the order of the listing; applied to its own output with the
\* same index it returns that output unchanged.
C21_FilterExactAndIdempotent ==
  /\ filt.pc \in {"once", "twice"} =>
       /\ Len(filt.once) = Cardinality(KeptPositions)
       /\ \A i \in 1..Len(filt.once) : filt.once[i] = filt.transactions[NthKept(i)]
  /\ filt.pc = "twice" => filt.twice = filt.once

C21_Witness ==
  /\ filt.pc = "twice"
  /\ Len(filt.transactions) = 3
  /\ filt.transactions[2].orderId \in filt.index
  /\ Len(filt.once) = 2
  /\ filt.once[1].orderId # filt.once[2].orderId
  /\ filt.twice = filt.once

\* ------------------------------------- specification of successive runs
\* format(new Date(), 'yyyy-MM-dd-HH-mm'): the minute the clock shows
Timestamp(now) == (now * 30) \div 60

\* args.outputName || 'transactions', then `${outputName}-${timestamp}.json`
\* joined to the data directory
OutputName(arg) == IF arg = "" THEN "transactions" ELSE arg
JsonPath(arg, now) == <<OutputName(arg), Timestamp(now)>>

\* fs.writeJSON: the file at the path is created, or replaced if there is one
writeJSON(files, path, data) ==
  {f \in files : f.path # path} \cup {[path |-> path, data |-> data]}

\* The orders the site lists, the same in every run
RunOrders == 1..MaxRunOrders

\* What loadProcessedOrders collects from the two directories, all files being
\* readable and all names of the shape the scan parses
LoadedIndex(files, names) == UNION {f.data.ids : f \in files} \cup names

RunsInit == runs = RunsAt("idle")

\* time passes, within a run or between two runs
RunsTick ==
  /\ runs.now < MaxTicks
  /\ runs' = [runs EXCEPT !.now = runs.now + 1]
  /\ UNCHANGED notRuns

\* A run starts: initialize() loads the index, scrapeTransactions walks the
\* listing and keeps the refs whose id is not in the index
RunStart ==
  /\ runs.pc = "idle"
  /\ Len(runs.written) < MaxRuns
  /\ LET index == LoadedIndex(runs.files, runs.shots)
     IN runs' = [runs EXCEPT !.pc = "running", !.index = index,
                             !.todo = RunOrders \ index, !.records = {}]
  /\ UNCHANGED notRuns

\* A job of the run: the artifact is written, then the record is pushed
RunJob ==
  /\ runs.pc = "running"
  /\ \E id \in runs.todo :
       runs' = [runs EXCEPT !.todo = @ \ {id}, !.shots = @ \cup {id},
                            !.records = @ \cup {id}]
  /\ UNCHANGED notRuns

\* The process is killed, or exits on a signal, before saveData: the records
\* in memory are lost, the files written so far stay
RunKill ==
  /\ runs.pc = "running"
  /\ runs' = [runs EXCEPT !.pc = "idle", !.index = {}, !.todo = {}, !.records = {}]
  /\ UNCHANGED notRuns

\* The run reaches saveData: the file name is made of the output name and of
\* the minute, and the snapshot of this run is written under it
RunSave ==
  /\ runs.pc = "running"
  /\ runs.todo = {}
  /\ \E arg \in {"", "mine"} :
       LET jsonPath == JsonPath(arg, runs.now)
           data == [run |-> Len(runs.written) + 1, ids |-> runs.records]
       IN runs' = [runs EXCEPT
                     !.pc = "idle", !.index = {}, !.records = {},
                     !.written = Append(runs.written, jsonPath),
                     !.files = writeJSON(runs.files, jsonPath, data)]
  /\ UNCHANGED notRuns

RunsNext ==
  \/ RunsTick
  \/ RunStart
  \/ RunJob
  \/ RunKill
  \/ RunSave

InitRuns ==
  /\ RunsInit /\ PoolIdle /\ ChunkIdle /\ ListIdle /\ LoadIdle /\ MainIdle
  /\ RowIdle /\ ExtIdle /\ FilterIdle /\ WorkerIdle /\ LoginIdle

SpecRuns == InitRuns /\ [][RunsNext]_vars

\* C22 (as claimed): the snapshot of every run stays on the disk as that run
\* wrote it, and no two runs write to the same path.
C22_EveryRunKeepsItsSnapshot ==
  /\ \A k \in 1..Len(runs.written) :
       \E f \in runs.files : f.path = runs.written[k] /\ f.data.run = k
  /\ \A i, j \in 1..Len(runs.written) :
       runs.written[i] = runs.written[j] => i = j

\* C35 (as claimed): every id in the index a run loaded has a record in some
\* snapshot file of the data directory.
C35_IndexedIdsAreInSnapshots ==
  runs.pc = "running" =>
    \A id \in runs.index : \E f \in runs.files : id \in f.data.ids

\* ------------------------------------ specification of one worker callback
\* The chunks of at most MaxWorkerJobs jobs over two orders (a chunk may hold
\* the same order twice), the page shapes, and the artifact of order 1 on the
\* disk or not. The row of order 1 links to its detail page; the row of
\* order 2 has no link and gives its id in its text.
WorkerIds == {1, 2}
NoLinkTransaction(id) == [BasicTransaction(id) EXCEPT !.orderDetailsUrl = << >>]
WorkerRefs ==
  {IF id = 1 THEN BasicTransaction(id) ELSE NoLinkTransaction(id) : id \in WorkerIds}
WorkerChunks == UNION {[1..n -> WorkerRefs] : n \in 0..MaxWorkerJobs}

\* The document a worker's page holds: that of a new page (0), which shows
\* nothing, or the detail document of the order it went to last
PageDoc(p) == IF p = 0 THEN NoDoc ELSE Doc(p)
Shapes ==
  {sh \in [refund : BOOLEAN, card : BOOLEAN, tall : BOOLEAN] : sh.tall => sh.card}

\* The awaited calls of takeSmartOrderScreenshot's try block on a page of the
\* given shape, in order (each hover with the wait that follows it)
SmartSteps(shape) ==
  <<"query">>
    \o (IF shape.refund THEN <<"hover">> ELSE << >>)
    \o <<"card">>
    \o (IF shape.card
        THEN <<"boundingBox">>
               \o (IF shape.tall
                   THEN <<"scroll">> \o (IF shape.refund THEN <<"rehover">> ELSE << >>)
                   ELSE << >>)
               \o <<"containerShot">>
        ELSE <<"viewportShot">>)
SmartStepNames ==
  {"query", "hover", "card", "boundingBox", "scroll", "rehover", "containerShot",
   "viewportShot"}

WorkerInit ==
  \E chunk \in WorkerChunks, shape \in Shapes, disk \in SUBSET {1} :
    wk = WorkerAt("call", chunk, shape, disk)

Job(w) == w.chunk[w.i]
Logged(w, event) == [w EXCEPT !.log = Append(@, <<event, w.i>>)]

\* The job in progress reads or captures the document its page holds
Used(w) == [w EXCEPT !.used = @ \cup {<<w.i, w.page>>}]

\* The catch block of scrapeOrderDetailsWithPage after step `name` threw
Degraded(w, name) ==
  [w EXCEPT !.pc = "return", !.ret = DegradedRecord(Job(w)),
            !.threw = @ \cup {name}, !.faults = @ + 1]

\* if (chunk.length === 0) return []; else context.newPage(), whose exception
\* rejects the callback's promise
WkNewPage ==
  /\ wk.pc = "call"
  /\ \E ok \in BOOLEAN :
       /\ ~ok => wk.chunk # << >> /\ wk.faults < MaxWorkerFaults
       /\ wk' = IF wk.chunk = << >> THEN [wk EXCEPT !.pc = "done"]
                ELSE IF ok THEN [wk EXCEPT !.pc = "goto", !.i = 1]
                ELSE [wk EXCEPT !.pc = "rejected", !.faults = @ + 1]
  /\ UNCHANGED notWorker

\* page.goto threw, and goes for the url once more
gotoFailedRetry(w) == [Logged(w, "goto") EXCEPT !.pc = "wait", !.faults = @ + 1]

\* page.goto threw
gotoFailed(w) == Degraded(w, "goto")

\* The body of the loop for job i starts: scrapeOrderDetailsWithPage, and
\* page.goto if (transaction.orderDetailsUrl); a goto that throws leaves the
\* page on the document it had or on the one it went for
WkGoto ==
  /\ wk.pc = "goto"
  /\ \E ok \in BOOLEAN, left \in {wk.page, wk.chunk[wk.i].orderId} :
       LET s == [Logged(wk, "start") EXCEPT
                   !.k = 0, !.details = EmptyOrderDetails, !.ret = << >>]
           w == Logged(s, "goto")
       IN /\ ok => left = Job(wk).orderId
          /\ ~ok => Job(wk).orderDetailsUrl # << >> /\ wk.faults < MaxWorkerFaults
          /\ wk' = IF Job(wk).orderDetailsUrl = << >> THEN [s EXCEPT !.pc = "exists"]
                   ELSE IF ok THEN [w EXCEPT !.pc = "wait", !.page = left]
                   ELSE gotoFailed([w EXCEPT !.page = left])
  /\ UNCHANGED notWorker

\* page.waitForLoadState('networkidle')
WkWaitForLoadState ==
  /\ wk.pc = "wait"
  /\ \E ok \in BOOLEAN :
       /\ ~ok => wk.faults < MaxWorkerFaults
       /\ wk' = IF ok THEN [wk EXCEPT !.pc = "exists"] ELSE Degraded(wk, "wait")
  /\ UNCHANGED notWorker

\* fs.pathExists(screenshotPath): the capture is skipped when the file is there
WkPathExists ==
  /\ wk.pc = "exists"
  /\ wk' = IF Job(wk).orderId \in wk.shots THEN [wk EXCEPT !.pc = "extract"]
           ELSE [wk EXCEPT !.pc = "smart", !.k = 1]
  /\ UNCHANGED notWorker

\* the catch block of takeSmartOrderScreenshot throwing the error again
smartCatchRethrow(w, name) == Degraded(w, name)

\* The catch block of takeSmartOrderScreenshot after step `name` threw
smartCatch(w, name) ==
  [w EXCEPT !.pc = "fallback", !.threw = @ \cup {name}, !.faults = @ + 1]

\* The next awaited call of takeSmartOrderScreenshot; the last one writes the file
WkSmartStep ==
  /\ wk.pc = "smart"
  /\ \E ok \in BOOLEAN :
       LET steps == SmartSteps(wk.shape)
       IN /\ ~ok => wk.faults < MaxWorkerFaults
          /\ wk' = IF ~ok THEN smartCatch(wk, steps[wk.k])
                   ELSE IF wk.k < Len(steps) THEN [wk EXCEPT !.k = @ + 1]
                   ELSE [Used(wk) EXCEPT !.pc = "extract",
                                         !.shots = @ \cup {Job(wk).orderId}]
  /\ UNCHANGED notWorker

\* page.screenshot({ path: screenshotPath }) in the catch block: the plain
\* capture of the viewport; its exception leaves scrapeOrderDetailsWithPage's try
WkPlainScreenshot ==
  /\ wk.pc = "fallback"
  /\ \E ok \in BOOLEAN :
       LET w == Used(Logged(wk, "plain"))
       IN /\ ~ok => wk.faults < MaxWorkerFaults
          /\ wk' = IF ok THEN [w EXCEPT !.pc = "extract",
                                        !.shots = @ \cup {Job(wk).orderId}]
                   ELSE Degraded(w, "fallback")
  /\ UNCHANGED notWorker

\* extractOrderDetailsWithPage, which catches what its queries throw
WkExtractDetails ==
  /\ wk.pc = "extract"
  /\ \E failAt \in {"none", "payment"} :
       /\ failAt # "none" => wk.faults < MaxWorkerFaults
       /\ wk' = [Used(wk) EXCEPT
                   !.pc = "date",
                   !.details = extractOrderDetailsWithPage(PageDoc(wk.page), failAt),
                   !.threw = IF failAt = "none" THEN @ ELSE @ \cup {"extract"},
                   !.faults = IF failAt = "none" THEN @ ELSE @ + 1]
  /\ UNCHANGED notWorker

\* page.textContent('body') for the date, then createTransaction
WkBodyText ==
  /\ wk.pc = "date"
  /\ \E ok \in BOOLEAN :
       /\ ~ok => wk.faults < MaxWorkerFaults
       /\ wk' = IF ok
                THEN [wk EXCEPT !.pc = "return",
                                !.ret = DetailedRecord(Job(wk), PageDoc(wk.page).date,
                                                       wk.details)]
                ELSE Degraded(wk, "date")
  /\ UNCHANGED notWorker

\* results.unshift in the place of results.push
unshift(results, rec) == <<rec>> \o results

\* results.push
push(results, rec) == Append(results, rec)

\* the loop going on to the next job right after the push
afterPushNoDelay(w) ==
  IF w.i < Len(w.chunk) THEN [w EXCEPT !.pc = "goto", !.i = @ + 1, !.threw = {}]
  ELSE [w EXCEPT !.pc = "done"]

\* What follows processedOrders.add in the loop body: page.waitForTimeout(1000)
afterPush(w) == [w EXCEPT !.pc = "delay"]

\* scrapeOrderDetailsWithPage has returned: results.push(detailedTransaction)
\* and this.processedOrders.add(transaction.orderId)
WkPush ==
  /\ wk.pc = "return"
  /\ wk' = afterPush([Logged(wk, "push") EXCEPT
                        !.results = push(wk.results, wk.ret),
                        !.processed = @ \cup {Job(wk).orderId}])
  /\ UNCHANGED notWorker

\* page.waitForTimeout(1000); when it throws, the catch block of the loop
\* pushes createTransaction(transaction); then i++
WkDelay ==
  /\ wk.pc = "delay"
  /\ \E ok \in BOOLEAN :
       LET w == IF ok THEN Logged(wk, "delay")
                ELSE [Logged(Logged(wk, "delay"), "push") EXCEPT
                        !.results = push(wk.results, createTransaction(Job(wk))),
                        !.threw = @ \cup {"delay"}, !.faults = @ + 1]
       IN /\ ~ok => wk.faults < MaxWorkerFaults
          /\ wk' = IF wk.i < Len(wk.chunk) THEN [w EXCEPT !.pc = "goto", !.i = @ + 1, !.threw = {}]
                   ELSE [w EXCEPT !.pc = "done"]
  /\ UNCHANGED notWorker

WorkerNext ==
  \/ WkNewPage
  \/ WkGoto
  \/ WkWaitForLoadState
  \/ WkPathExists
  \/ WkSmartStep
  \/ WkPlainScreenshot
  \/ WkExtractDetails
  \/ WkBodyText
  \/ WkPush
  \/ WkDelay

InitWorker ==
  /\ WorkerInit /\ PoolIdle /\ ChunkIdle /\ ListIdle /\ LoadIdle /\ MainIdle
  /\ RowIdle /\ ExtIdle /\ FilterIdle /\ RunsIdle /\ LoginIdle

SpecWorker == InitWorker /\ [][WorkerNext]_vars

\* The places of the log where the call `event` of job j stands, and the jobs
\* of the calls to results.push, in the order of the calls
Positions(event, j) == {p \in 1..Len(wk.log) : wk.log[p] = <<event, j>>}
Pushes == SelectSeq(wk.log, LAMBDA e : e[1] = "push")

\* C24: the records of a worker's result list stand in the order of the jobs
\* of its chunk: the r-th record is the one pushed by the r-th call to
\* results.push, the jobs of these calls never go back, and so the record of
\* an earlier job precedes the record of a later one, degraded or not.
C24_ResultsInChunkOrder ==
  /\ Len(Pushes) = Len(wk.results)
  /\ \A r \in 1..Len(wk.results) :
       wk.results[r].orderId = wk.chunk[Pushes[r][2]].orderId
  /\ \A r1, r2 \in 1..Len(Pushes) : r1 < r2 => Pushes[r1][2] <= Pushes[r2][2]

C24_Witness ==
  /\ wk.pc = "done"
  /\ Len(wk.chunk) = 2
  /\ wk.chunk[1].orderId # wk.chunk[2].orderId
  /\ wk.results = <<DegradedRecord(wk.chunk[1]),
                    DetailedRecord(wk.chunk[2], Doc(wk.chunk[2].orderId).date,
                                   extractOrderDetailsWithPage(Doc(wk.chunk[2].orderId), "none"))>>

C26_NoRetry ==
  /\ \A j \in 1..Len(wk.chunk) : Cardinality(Positions("goto", j)) <= 1
  /\ wk.pc = "delay" /\ wk.threw \cap {"goto", "wait"} # {} =>
       /\ wk.results[Len(wk.results)] = DegradedRecord(Job(wk))
       /\ Cardinality(Positions("push", wk.i)) = 1

C26_Witness ==
  /\ wk.pc = "done"
  /\ Len(wk.chunk) = 2
  /\ wk.threw = {"goto"}
  /\ wk.results[2] = DegradedRecord(wk.chunk[2])
  /\ wk.results[1].orderScreenshot # << >>

\* C28: when a step of the smart capture throws, the plain capture of the
\* viewport is called for the same job and path, and if nothing else than the
\* smart capture (and a query of the extraction, which is caught) threw in the
\* job, its record is the full one, with the path of the artifact, and the
\* artifact is on the disk.
C28_SmartFailureFallsBack ==
  wk.threw \cap SmartStepNames # {} =>
    /\ wk.pc = "fallback" \/ Positions("plain", wk.i) # {}
    /\ wk.pc = "delay" /\ wk.threw \subseteq SmartStepNames \cup {"extract"} =>
         /\ wk.results[Len(wk.results)] =
              DetailedRecord(Job(wk), PageDoc(wk.page).date, wk.details)
         /\ wk.results[Len(wk.results)].orderScreenshot = ScreenshotPath(Job(wk).orderId)
         /\ Job(wk).orderId \in wk.shots

C28_Witness ==
  /\ wk.pc = "delay"
  /\ wk.threw = {"scroll"}
  /\ Positions("plain", wk.i) # {}
  /\ wk.results[Len(wk.results)].orderScreenshot = ScreenshotPath(Job(wk).orderId)
  /\ wk.results[Len(wk.results)].recipient # ""
  /\ Job(wk).orderId \in wk.shots

\* C36 (as claimed): the documents a job read and captured for a record that
\* is not the degraded one are the detail document of that job's own order.
C36_RecordFromOwnDocument ==
  wk.pc = "return" /\ wk.ret.orderScreenshot # << >> =>
    \A u \in wk.used : u[1] = wk.i => u[2] = Job(wk).orderId

\* ------------------------------------------------- specification of login
maxWaitTime == 120000
checkInterval == 2000

\* The markers the code looks for in a url, and the urls the page may show
AuthMarkers == {"ap/mfa", "ap/cvf", "challenge", "signin", "/ax/claim"}
Urls ==
  {{}, {"yourpayments"}, {"signin"}, {"signin", "yourpayments"}, {"ap/mfa"},
   {"ap/cvf"}, {"challenge"}, {"/ax/claim"}}

\* url.includes('ap/mfa') || ... || url.includes('/ax/claim')
OnAuthPage(url) == url \cap AuthMarkers # {}

\* the loop condition letting the loop in once more at the limit
LoopGoesOnAtLimit(waitTime) == waitTime <= maxWaitTime

\* while (waitTime < maxWaitTime)
LoopGoesOn(waitTime) == waitTime < maxWaitTime

\* The catch block of login: return false
LoginCatch(a) == [a EXCEPT !.pc = "returned", !.threw = TRUE, !.result = FALSE]

LoginInit == auth = LoginAt("goto")

\* page.goto of the payments url, the wait and the three queries for an email
\* input: with one the form is filled, without any the access check follows
LoginGoto ==
  /\ auth.pc = "goto"
  /\ \E ok \in BOOLEAN, form \in BOOLEAN :
       /\ ~ok => ~form
       /\ auth' = IF ~ok THEN LoginCatch(auth)
                  ELSE [auth EXCEPT !.pc = IF form THEN "form" ELSE "check"]
  /\ UNCHANGED notLogin

\* The form: email, continue, the wait for the password field (which throws
\* on its timeout), password, submit, the wait of 5000 ms, and the url read
\* after it: on an authentication page the wait loop starts
LoginForm ==
  /\ auth.pc = "form"
  /\ \E ok \in BOOLEAN, newUrl \in Urls :
       /\ ~ok => newUrl = {}
       /\ auth' = IF ~ok THEN LoginCatch(auth)
                  ELSE [auth EXCEPT !.url = newUrl,
                                    !.pc = IF ~OnAuthPage(newUrl) THEN "check"
                                           ELSE IF LoopGoesOn(auth.waitTime) THEN "poll"
                                           ELSE "settle"]
  /\ UNCHANGED notLogin

\* One turn of the wait loop: waitForTimeout(checkInterval), waitTime +=
\* checkInterval, the url is read; break when it shows no authentication
\* marker, break when it shows yourpayments, else the loop condition
LoginPoll ==
  /\ auth.pc = "poll"
  /\ \E ok \in BOOLEAN, currentUrl \in Urls :
       /\ ~ok => currentUrl = {}
       /\ auth' = IF ~ok THEN LoginCatch(auth)
                  ELSE [auth EXCEPT
                          !.waitTime = @ + checkInterval,
                          !.polls = @ + 1,
                          !.url = currentUrl,
                          !.pc = IF ~OnAuthPage(currentUrl) THEN "settle"
                                 ELSE IF "yourpayments" \in currentUrl THEN "settle"
                                 ELSE IF LoopGoesOn(auth.waitTime + checkInterval)
                                      THEN "poll"
                                 ELSE "settle"]
  /\ UNCHANGED notLogin

\* After the loop: waitForTimeout(3000)
LoginSettle ==
  /\ auth.pc = "settle"
  /\ \E ok \in BOOLEAN :
       auth' = IF ok THEN [auth EXCEPT !.pc = "check"] ELSE LoginCatch(auth)
  /\ UNCHANGED notLogin

\* checkPaymentsPageAccess, which catches what its calls throw, and the
\* return of its value
LoginCheck ==
  /\ auth.pc = "check"
  /\ \E isLoggedIn \in BOOLEAN :
       auth' = [auth EXCEPT !.pc = "returned", !.access = isLoggedIn,
                            !.result = isLoggedIn]
  /\ UNCHANGED notLogin

LoginNext ==
  \/ LoginGoto
  \/ LoginForm
  \/ LoginPoll
  \/ LoginSettle
  \/ LoginCheck

InitLogin ==
  /\ LoginInit /\ PoolIdle /\ ChunkIdle /\ ListIdle /\ LoadIdle /\ MainIdle
  /\ RowIdle /\ ExtIdle /\ FilterIdle /\ RunsIdle /\ WorkerIdle

SpecLogin == InitLogin /\ [][LoginNext]_vars

\* C40: the wait loop makes at most 60 polls, 120000 ms at 2000 ms a poll,
\* counting the time of every poll made; it goes on to the next poll only
\* while every url polled so far showed an authentication page, so that it
\* has stopped at the first poll whose url shows none; and login returns
\* what checkPaymentsPageAccess returned, or false when an awaited call threw.
C40_WaitLoopBoundedAndLoginReturns ==
  /\ auth.polls <= 60
  /\ auth.waitTime = auth.polls * checkInterval
  /\ auth.waitTime <= maxWaitTime
  /\ auth.pc = "poll" => OnAuthPage(auth.url)
  /\ auth.pc = "returned" =>
       auth.result = (IF auth.threw THEN FALSE ELSE auth.access)

C40_Witness ==
  /\ auth.pc = "returned"
  /\ auth.polls = 60
  /\ auth.waitTime = maxWaitTime
  /\ OnAuthPage(auth.url)
  /\ ~auth.threw
  /\ auth.result

====
